---------------------------- MODULE Spec2Model ----------------------------
(***************************************************************************)
(* A model of the go-estimate filter family (KF, EKF, IEKF, UKF, BF) and   *)
(* of its smoothers (RTS, ERTS).                                           *)
(*                                                                         *)
(* Numbers are exact rationals <<n, d>> with the IEEE special values kept: *)
(* <<1,0>> is +Inf, <<-1,0>> is -Inf and <<0,0>> is NaN, so that 1/0 and   *)
(* 0*Inf behave as float64 does.  Vectors are sequences of numbers and     *)
(* matrices are sequences of rows.  Objects the program shares by pointer  *)
(* (vectors, matrices) live in a heap and are named by their index.        *)
(***************************************************************************)
EXTENDS Integers, Sequences, FiniteSets, TLC

VARIABLES flt, heap, cx, ests, gots, last, steps

vars == <<flt, heap, cx, ests, gots, last, steps>>

\* a nil vector or matrix: a value no vector and no matrix is equal to
NIL == << << >> >>

\* Body applied to val: names an intermediate result
With(val, Body(_)) == Body(val)

-----------------------------------------------------------------------------
(* float64 arithmetic, exact on the rationals *)

Abs(n) == IF n < 0 THEN -n ELSE n

Sign(n) == IF n < 0 THEN -1 ELSE IF n > 0 THEN 1 ELSE 0

RECURSIVE Gcd(_, _)
Gcd(a, b) == IF b = 0 THEN a ELSE Gcd(b, a % b)

\* n / d in lowest terms with a positive denominator, g their common divisor
Reduced(n, d, g) ==
    IF d < 0 THEN <<(-n) \div g, (-d) \div g>> ELSE <<n \div g, d \div g>>

Rat(n, d) == IF d = 0 THEN <<Sign(n), 0>> ELSE Reduced(n, d, Gcd(Abs(n), Abs(d)))

R(n) == <<n, 1>>

NaN == <<0, 0>>

Inf == <<1, 0>>

IsNaN(a) == a = NaN

IsFinite(a) == a[2] # 0

\* a + b for finite a and b, g the common divisor of their denominators
AddOver(a, b, g) ==
    Rat(a[1] * (b[2] \div g) + b[1] * (a[2] \div g), (a[2] \div g) * b[2])

RAdd(a, b) ==
    IF a[2] = 0 \/ b[2] = 0
    THEN (IF a[2] # 0 THEN b ELSE IF b[2] # 0 THEN a ELSE IF a = b THEN a ELSE NaN)
    ELSE AddOver(a, b, Gcd(a[2], b[2]))

RNeg(a) == <<-a[1], a[2]>>

RSub(a, b) == RAdd(a, RNeg(b))

\* a * b for finite a and b, after cancelling g1 and g2 crosswise
MulOver(a, b, g1, g2) ==
    <<(a[1] \div g1) * (b[1] \div g2), (a[2] \div g2) * (b[2] \div g1)>>

RMul(a, b) ==
    IF a[2] = 0 \/ b[2] = 0 THEN <<Sign(a[1]) * Sign(b[1]), 0>>
    ELSE MulOver(a, b, Gcd(Abs(a[1]), b[2]), Gcd(Abs(b[1]), a[2]))

RInv(a) == IF a[1] = 0 /\ a[2] # 0 THEN Inf ELSE Rat(a[2], a[1])

RDiv(a, b) == RMul(a, RInv(b))

\* a > b as float64 compares: false whenever a NaN is involved
RGt(a, b) ==
    /\ ~IsNaN(a) /\ ~IsNaN(b)
    /\ IF a[2] = 0 \/ b[2] = 0
       THEN (IF a[2] = 0 /\ b[2] = 0 THEN a[1] > b[1]
             ELSE IF a[2] = 0 THEN a[1] > 0 ELSE b[1] < 0)
       ELSE a[1] * b[2] > b[1] * a[2]

RECURSIVE RSumTo(_, _)
RSumTo(s, n) == IF n = 0 THEN R(0) ELSE RAdd(RSumTo(s, n - 1), s[n])

\* floats.Sum: left-to-right sum of a slice
RSum(s) == RSumTo(s, Len(s))

-----------------------------------------------------------------------------
(* gonum/mat vectors and matrices *)

\* the n entries of v written out as a sequence (the value is the same)
Dense(v, n) == SubSeq(v, 1, n)

Rows(m) == Len(m)

Cols(m) == IF Len(m) = 0 THEN 0 ELSE Len(m[1])

IsEmpty(m) == Len(m) = 0

ZeroVec(n) == Dense([i \in 1..n |-> R(0)], n)

ZeroMat(r, c) == Dense([i \in 1..r |-> ZeroVec(c)], r)

Eye(n) == Dense([i \in 1..n |-> Dense([j \in 1..n |-> IF i = j THEN R(1) ELSE R(0)], n)], n)

VAdd(v, w) == Dense([i \in 1..Len(v) |-> RAdd(v[i], w[i])], Len(v))

VSub(v, w) == Dense([i \in 1..Len(v) |-> RSub(v[i], w[i])], Len(v))

VScale(a, v) == Dense([i \in 1..Len(v) |-> RMul(a, v[i])], Len(v))

MT(m) == Dense([j \in 1..Cols(m) |-> Dense([i \in 1..Rows(m) |-> m[i][j]], Rows(m))], Cols(m))

MAdd(a, b) == Dense([i \in 1..Rows(a) |-> VAdd(a[i], b[i])], Rows(a))

MSub(a, b) == Dense([i \in 1..Rows(a) |-> VSub(a[i], b[i])], Rows(a))

MScale(s, a) == Dense([i \in 1..Rows(a) |-> VScale(s, a[i])], Rows(a))

\* the sum over k of a[k] * b[k], accumulated from the left
Dot(a, b) == RSum([k \in 1..Len(a) |-> RMul(a[k], b[k])])

Col(m, j) == Dense([i \in 1..Rows(m) |-> m[i][j]], Rows(m))

MMul(a, b) ==
    Dense([i \in 1..Rows(a) |->
              Dense([j \in 1..Cols(b) |-> Dot(a[i], Col(b, j))], Cols(b))], Rows(a))

\* matrix times vector
MVec(a, v) == Dense([i \in 1..Rows(a) |-> Dot(a[i], v)], Rows(a))

\* the matrix whose columns are the vectors of cols, each of length rows
FromCols(cols, rows) ==
    Dense([i \in 1..rows |-> Dense([c \in 1..Len(cols) |-> cols[c][i]], Len(cols))], rows)

\* the entries n+1 .. m of v
SliceVec(v, n, m) == SubSeq(v, n + 1, m)

-----------------------------------------------------------------------------
(* mat.SymDense: a symmetric matrix; SetSym(i, j, v) sets both (i,j), (j,i) *)

SetSymOneCell(m, i, j, v) == [m EXCEPT ![i][j] = v]

SetSym(m, i, j, v) == [m EXCEPT ![i][j] = v, ![j][i] = v]

AllPairs(n) == Dense([k \in 1..(n * n) |-> <<((k - 1) \div n) + 1, ((k - 1) % n) + 1>>], n * n)

UpperPairs(n) == SelectSeq(AllPairs(n), LAMBDA p : p[1] <= p[2])

\* for each of the first n pairs (i,j) in order: dst.SetSym(i, j, src.At(i, j))
RECURSIVE SetSymLoop(_, _, _, _)
SetSymLoop(dst, src, pairs, n) ==
    IF n = 0 THEN dst
    ELSE SetSym(SetSymLoop(dst, src, pairs, n - 1), pairs[n][1], pairs[n][2],
                src[pairs[n][1]][pairs[n][2]])

\* for i, j over the whole of src: dst.SetSym(i, j, src.At(i, j))
SetSymAll(dst, src) == SetSymLoop(dst, src, AllPairs(Rows(dst)), Rows(dst) * Rows(dst))

\* for i <= j < n: dst.SetSym(i, j, src.At(i, j))
SetSymUpper(dst, src, n) == SetSymLoop(dst, src, UpperPairs(n), Len(UpperPairs(n)))

\* mat.NewSymDense(n, nil) followed by CopySym(src), n the dimension of src
CopySym(src) == SetSymUpper(ZeroMat(Rows(src), Rows(src)), src, Rows(src))

SymmetricDim(m) == Rows(m)

IsSymmetric(m) == \A i \in 1..Rows(m) : \A j \in 1..Cols(m) : m[i][j] = m[j][i]

\* the determinant of a 2 x 2 matrix
Det2(m) == RSub(RMul(m[1][1], m[2][2]), RMul(m[1][2], m[2][1]))

\* the inverse of a 2 x 2 matrix of determinant d
Inverse2(m, d) ==
    <<<<RDiv(m[2][2], d), RDiv(RNeg(m[1][2]), d)>>,
      <<RDiv(RNeg(m[2][1]), d), RDiv(m[1][1], d)>>>>

\* mat.Dense.Inverse of a 1 x 1 or 2 x 2 matrix: an error when it is singular
Inverse(m) ==
    IF Rows(m) = 2
    THEN IF Det2(m) = R(0) \/ ~IsFinite(Det2(m))
         THEN [err |-> TRUE, val |-> << >>]
         ELSE [err |-> FALSE, val |-> Inverse2(m, Det2(m))]
    ELSE IF m[1][1] = R(0) \/ ~IsFinite(m[1][1])
    THEN [err |-> TRUE, val |-> << >>]
    ELSE [err |-> FALSE, val |-> <<<<RInv(m[1][1])>>>>]

-----------------------------------------------------------------------------
(* sim.System / sim.Discrete: the linear model x' = A x + B u, y = C x + D u *)

\* the falling-ball system of the tests
FallModel ==
    [A |-> <<<<R(1), R(1)>>, <<R(0), R(1)>>>>,
     B |-> <<<<Rat(1, 2)>>, <<R(1)>>>>,
     C |-> <<<<R(1), R(0)>>>>,
     D |-> <<<<R(0)>>>>,
     dims |-> NIL,
     limit |-> NIL,
     curve |-> NIL]

\* the tests' invalidModel: the same system reporting other dimensions
InvalidModel(nx, ny) == [FallModel EXCEPT !.dims = <<nx, ny>>]

\* a caller's model that returns an error for every state whose first entry
\* is above limit: the same system with a bounded domain
GuardedModel(limit) == [FallModel EXCEPT !.limit = limit]

\* a caller's nonlinear model: the output is y = C x + D u + curve * x[0]^2
CurvedModel(curve) == [FallModel EXCEPT !.curve = curve]

\* the output of the state x alone
ObserveState(m, x) ==
    IF m.curve = NIL THEN MVec(m.C, x)
    ELSE VAdd(MVec(m.C, x),
              Dense([i \in 1..Rows(m.C) |-> RMul(m.curve, RMul(x[1], x[1]))], Rows(m.C)))

\* the model's functions return an error for the state x
Refuses(m, x) == m.limit # NIL /\ RGt(x[1], m.limit)

SystemDims(m) ==
    IF m.dims # NIL
    THEN [nx |-> m.dims[1], nu |-> 0, ny |-> m.dims[2]]
    ELSE [nx |-> Rows(m.A),
          nu |-> IF m.B # NIL THEN Cols(m.B) ELSE 0,
          ny |-> IF m.C # NIL THEN Rows(m.C) ELSE 0]

\* the result of a model function: an error, or a vector
Failed == [err |-> TRUE, val |-> NIL]

Value(v) == [err |-> FALSE, val |-> v]

\* out.Add(out, M * u) when u and M are given
AddInput(out, M, u) == IF u # NIL /\ M # NIL THEN VAdd(out, MVec(M, u)) ELSE out

\* out.Add(out, w) when the noise w is given and has length n
AddNoise(out, w, n) == IF w # NIL /\ Len(w) = n THEN VAdd(out, w) ELSE out

\* the dimensions of the system itself, whatever SystemDims reports
SysDims(m) == SystemDims([m EXCEPT !.dims = NIL])

PropagateNoInputCheck(m, x, u, wd) ==
    IF Len(x) # SysDims(m).nx THEN Failed
    ELSE IF Refuses(m, x) THEN Failed
    ELSE Value(AddNoise(AddInput(MVec(m.A, x), m.B, u), wd, SysDims(m).nx))

Propagate(m, x, u, wd) ==
    IF u # NIL /\ Len(u) # SysDims(m).nu THEN Failed
    ELSE IF Len(x) # SysDims(m).nx THEN Failed
    ELSE IF Refuses(m, x) THEN Failed
    ELSE Value(AddNoise(AddInput(MVec(m.A, x), m.B, u), wd, SysDims(m).nx))

Observe(m, x, u, wn) ==
    IF u # NIL /\ Len(u) # SysDims(m).nu THEN Failed
    ELSE IF Len(x) # SysDims(m).nx THEN Failed
    ELSE IF Refuses(m, x) THEN Failed
    ELSE Value(AddNoise(AddInput(ObserveState(m, x), m.D, u), wn, SysDims(m).ny))

-----------------------------------------------------------------------------
(* noise.None, noise.Zero, noise.Gaussian *)

NewNone == [kind |-> "None"]

NewZero(size) == [kind |-> "Zero", size |-> size]

NewGaussian(cov) == [kind |-> "Gaussian", cov |-> cov]

NoiseCov(nz) ==
    CASE nz.kind = "None" -> << >>
      [] nz.kind = "Zero" -> ZeroMat(nz.size, nz.size)
      [] OTHER            -> nz.cov

\* a vector of ones: the sample of a Gaussian noise that is not zero
Ones(n) == Dense([i \in 1..n |-> R(1)], n)

NoiseSampleAny(nz) ==
    CASE nz.kind = "None" -> {<< >>}
      [] OTHER            -> {ZeroVec(Rows(NoiseCov(nz))), Ones(Rows(NoiseCov(nz)))}

\* the vectors one call of Sample() may return
NoiseSample(nz) ==
    CASE nz.kind = "None" -> {<< >>}
      [] nz.kind = "Zero" -> {ZeroVec(nz.size)}
      [] OTHER            -> {ZeroVec(Rows(nz.cov)), Ones(Rows(nz.cov))}

IsNone(nz) == nz.kind = "None"

-----------------------------------------------------------------------------
(* the heap: objects shared by pointer, named by their index *)

\* the heap with new objects holding the values of vs; their names are
\* Len(h) + 1, Len(h) + 2, ...
Alloc(h, vs) == h \o vs

\* dst.CopySym(src), dst.Copy(src), dst.CopyVec(src): overwrite dst in place
Store(h, dst, v) == [h EXCEPT ![dst] = v]

-----------------------------------------------------------------------------
(* estimate.Base *)

NoEst == [val |-> 0, cov |-> 0]

\* an operation's outcome: res is "ok", "err" (a returned error and a nil
\* estimate) or "panic"; h is the heap it leaves
Outcome(res, h, est) == [res |-> res, h |-> h, est |-> est]

NewBase(h, val) ==
    Outcome("ok", Alloc(h, <<h[val], ZeroMat(Len(h[val]), Len(h[val]))>>),
            [val |-> Len(h) + 1, cov |-> Len(h) + 2])

NewBaseWithCovAlias(h, val, cov) ==
    IF Len(h[val]) # SymmetricDim(h[cov]) THEN Outcome("err", h, NoEst)
    ELSE Outcome("ok", h, [val |-> val, cov |-> cov])

NewBaseWithCov(h, val, cov) ==
    IF Len(h[val]) # SymmetricDim(h[cov]) THEN Outcome("err", h, NoEst)
    ELSE Outcome("ok", Alloc(h, <<h[val], CopySym(h[cov])>>),
                 [val |-> Len(h) + 1, cov |-> Len(h) + 2])

\* an object of the heap h, named by id
Ref(h, id) == [h |-> h, id |-> id]

\* v.CloneFromVec(src), m.CloneFrom(src), NewSymDense + CopySym: a new object
\* holding the value v
Fresh(h, v) == Ref(Alloc(h, <<v>>), Len(h) + 1)

\* Base.Val and Base.Cov hand out copies
BaseVal(h, e) == Fresh(h, h[e.val])

BaseCov(h, e) == Fresh(h, CopySym(h[e.cov]))

-----------------------------------------------------------------------------
(* sim.InitCond and the arguments of the constructors *)

NewInitCond(state, cov) == [state |-> state, cov |-> cov]

\* a nil filter.Noise argument
NilNoise == [kind |-> "nil"]

NoFilter == [kind |-> "none"]

\* what a constructor returns: an error and a nil filter, or a filter
NewFailed(h) == [err |-> TRUE, h |-> h, f |-> NoFilter]

Created(h, f) == [err |-> FALSE, h |-> h, f |-> f]

-----------------------------------------------------------------------------
(* kalman/kf: the linear Kalman filter *)

NoiseArgAny(nz, n, dflt) == [err |-> FALSE, nz |-> IF nz.kind # "nil" THEN nz ELSE dflt]

\* the noise checks shared by the constructors: a supplied noise must have a
\* covariance of dimension n; a nil noise is replaced by dflt
NoiseArg(nz, n, dflt) ==
    IF nz.kind # "nil"
    THEN (IF SymmetricDim(NoiseCov(nz)) # n
          THEN [err |-> TRUE, nz |-> nz]
          ELSE [err |-> FALSE, nz |-> nz])
    ELSE [err |-> FALSE, nz |-> dflt]

\* (the predicted covariance initialised to the initial covariance)
KalmanFieldsFromInit(h, init, nx, ny) ==
    Alloc(h, <<CopySym(init.cov), CopySym(init.cov), ZeroVec(ny), ZeroMat(nx, ny)>>)

\* the objects every Kalman filter allocates, in this order: p, pNext, inn, k
KalmanFields(h, init, nx, ny) ==
    Alloc(h, <<CopySym(init.cov), ZeroMat(Rows(init.cov), Rows(init.cov)),
               ZeroVec(ny), ZeroMat(nx, ny)>>)

KFNew(h, m, init, z, wn) ==
    With(SystemDims(m), LAMBDA d :
    With(NoiseArg(z, d.nx, NewNone), LAMBDA q :
    With(NoiseArg(wn, d.ny, NewNone), LAMBDA r :
        IF d.nx <= 0 \/ d.ny <= 0 THEN NewFailed(h)
        ELSE IF q.err \/ r.err THEN NewFailed(h)
        ELSE IF Rows(m.A) # d.nx \/ Cols(m.A) # d.nx THEN NewFailed(h)
        ELSE IF m.B # NIL /\ ~IsEmpty(m.B) /\ Rows(m.B) # d.nx THEN NewFailed(h)
        ELSE IF Rows(m.C) # d.ny \/ Cols(m.C) # d.nx THEN NewFailed(h)
        ELSE IF m.D # NIL /\ ~IsEmpty(m.D) /\ Rows(m.D) # d.ny THEN NewFailed(h)
        ELSE Created(KalmanFields(h, init, d.nx, d.ny),
                     [kind |-> "KF", m |-> m, q |-> q.nz, r |-> r.nz,
                      p |-> Len(h) + 1, pNext |-> Len(h) + 2,
                      inn |-> Len(h) + 3, k |-> Len(h) + 4]))))

\* (the prediction without the process noise)
PredictCovNoNoise(F, p, q) == MMul(MMul(F, p), MT(F))

\* cov := F * p * F' (+ Q unless the process noise is None)
PredictCov(F, p, q) ==
    IF ~IsNone(q) THEN MAdd(MMul(MMul(F, p), MT(F)), NoiseCov(q))
    ELSE MMul(MMul(F, p), MT(F))

KFPredict(h, f, x, u, qs) ==
    With(Propagate(f.m, h[x], u, qs), LAMBDA xNext :
        IF xNext.err THEN Outcome("err", h, NoEst)
        ELSE With(Store(h, f.pNext,
                        SetSymAll(h[f.pNext], PredictCov(f.m.A, h[f.p], f.q))),
                  LAMBDA h1 :
                      NewBaseWithCov(Alloc(h1, <<xNext.val>>), Len(h1) + 1, f.pNext)))

\* pyy = H pxy (+ R unless the output noise is None)
OutputCov(H, pxy, r) ==
    IF ~IsNone(r) THEN MAdd(MMul(H, pxy), NoiseCov(r)) ELSE MMul(H, pxy)

\* pxy = P' H', K = pxy pyy^-1: an error when pyy has no inverse
KalmanGain(pNext, H, r) ==
    With(MMul(pNext, MT(H)), LAMBDA pxy :
    With(Inverse(OutputCov(H, pxy, r)), LAMBDA pyyInv :
        IF pyyInv.err THEN [err |-> TRUE, gain |-> << >>]
        ELSE [err |-> FALSE, gain |-> MMul(pxy, pyyInv.val)]))

\* a * p * a'
Sandwich(a, p) == MMul(MMul(a, p), MT(a))

\* Joseph form: (I - K H) P' (I - K H)' + K R K'; the sum is computed only when
\* K R K' was computed, and pCorr stays empty otherwise
JosephForm(gain, H, pNext, r, n) ==
    With(IF ~IsNone(r) THEN MMul(MMul(gain, NoiseCov(r)), MT(gain)) ELSE << >>,
         LAMBDA pkrk :
             IF ~IsEmpty(pkrk)
             THEN MAdd(Sandwich(MSub(Eye(n), MMul(gain, H)), pNext), pkrk)
             ELSE << >>)

\* (the corrected covariance written over the predicted one as well)
StoreCorrectionBoth(h, f, inn, gain, pCorr, nx) ==
    IF IsEmpty(pCorr)
    THEN [panic |-> TRUE, h |-> Store(Store(h, f.inn, inn), f.k, gain)]
    ELSE [panic |-> FALSE,
          h |-> Store(Store(Store(Store(h, f.inn, inn), f.k, gain),
                            f.p, SetSymUpper(h[f.p], pCorr, nx)),
                      f.pNext, SetSymUpper(h[f.pNext], pCorr, nx))]

\* the end of Update: inn and k are stored, then p (the upper triangle of
\* pCorr, mirrored); reading an empty pCorr panics
StoreCorrection(h, f, inn, gain, pCorr, nx) ==
    IF IsEmpty(pCorr)
    THEN [panic |-> TRUE, h |-> Store(Store(h, f.inn, inn), f.k, gain)]
    ELSE [panic |-> FALSE,
          h |-> Store(Store(Store(h, f.inn, inn), f.k, gain),
                      f.p, SetSymUpper(h[f.p], pCorr, nx))]

\* (the corrected state written to a new vector, x left as it was)
CorrectInCopy(h, f, x, H, gain, inn) ==
    With(Alloc(h, <<VAdd(h[x], MVec(gain, inn))>>), LAMBDA h1 :
    With(StoreCorrection(h1, f, inn, gain,
                         JosephForm(gain, H, h1[f.pNext], f.r, Len(h1[x])),
                         SystemDims(f.m).nx),
         LAMBDA st :
             IF st.panic THEN Outcome("panic", st.h, NoEst)
             ELSE NewBaseWithCov(st.h, Len(h) + 1, f.p)))

\* Update from the innovation on: x += K inn in place, then the covariance
Correct(h, f, x, H, gain, inn) ==
    With(Store(h, x, VAdd(h[x], MVec(gain, inn))), LAMBDA h1 :
    With(StoreCorrection(h1, f, inn, gain,
                         JosephForm(gain, H, h1[f.pNext], f.r, Len(h1[x])),
                         SystemDims(f.m).nx),
         LAMBDA st :
             IF st.panic THEN Outcome("panic", st.h, NoEst)
             ELSE NewBaseWithCov(st.h, x, f.p)))

KFUpdate(h, f, x, u, ym, rs) ==
    IF Len(ym) # SystemDims(f.m).ny THEN Outcome("err", h, NoEst)
    ELSE With(Observe(f.m, h[x], u, rs), LAMBDA yNext :
             IF yNext.err THEN Outcome("err", h, NoEst)
             ELSE With(KalmanGain(h[f.pNext], f.m.C, f.r), LAMBDA g :
                      IF g.err THEN Outcome("err", h, NoEst)
                      ELSE Correct(h, f, x, f.m.C, g.gain, VSub(ym, yNext.val))))

KFRunNoCopy(h, f, x, u, z, qs, rs) ==
    With(KFPredict(h, f, x, u, qs), LAMBDA pred :
        IF pred.res # "ok" THEN Outcome(pred.res, pred.h, NoEst)
        ELSE KFUpdate(pred.h, f, x, u, z, rs))

KFRun(h, f, x, u, z, qs, rs) ==
    With(KFPredict(h, f, x, u, qs), LAMBDA pred :
        IF pred.res # "ok" THEN Outcome(pred.res, pred.h, NoEst)
        ELSE With(BaseVal(pred.h, pred.est), LAMBDA v :
                 KFUpdate(v.h, f, v.id, u, z, rs)))

\* Cov, SetCov and Gain have the same text in KF, EKF and UKF
CovAlias(h, f) == Ref(h, f.p)

Cov(h, f) == Fresh(h, CopySym(h[f.p]))

Gain(h, f) == Fresh(h, h[f.k])

\* cov = 0 stands for a nil argument; the result is the error and the heap
SetCov(h, f, cov) ==
    IF cov = 0 THEN [err |-> TRUE, h |-> h]
    ELSE IF SymmetricDim(h[cov]) # SymmetricDim(h[f.p]) THEN [err |-> TRUE, h |-> h]
    ELSE [err |-> FALSE, h |-> Store(h, f.p, CopySym(h[cov]))]

-----------------------------------------------------------------------------
(* kalman/ekf: the extended Kalman filter and its iterated variant *)

\* the step of the finite differences (for this linear model the differences
\* are exact whatever the step)
JacStep == Rat(1, 100)

\* x with d added to its j-th entry
Perturbed(x, j, d) == [x EXCEPT ![j] = RAdd(x[j], d)]

\* the closures New builds: the model's functions with a Zero noise sample
FJacFn(m, u, x) == Propagate(m, x, u, ZeroVec(SystemDims(m).nx)).val

HJacFn(m, u, x) == Observe(m, x, u, ZeroVec(SystemDims(m).ny)).val

\* the closure named Fn applied to x
JacFnAt(Fn, m, u, x) == IF Fn = "FJacFn" THEN FJacFn(m, u, x) ELSE HJacFn(m, u, x)

\* the closure named Fn panics at x: the model returned an error
JacFnPanics(Fn, m, u, x) ==
    IF Fn = "FJacFn" THEN Propagate(m, x, u, ZeroVec(SystemDims(m).nx)).err
    ELSE Observe(m, x, u, ZeroVec(SystemDims(m).ny)).err

\* fd.Jacobian evaluates the closure at x + s e_j and x - s e_j for every j:
\* one of these evaluations panics
JacobianPanics(Fn, m, u, x) ==
    \E j \in 1..Len(x) :
        \/ JacFnPanics(Fn, m, u, Perturbed(x, j, JacStep))
        \/ JacFnPanics(Fn, m, u, Perturbed(x, j, RNeg(JacStep)))

\* fd.Jacobian with the Central formula: column j of the result is
\* (Fn(x + s e_j) - Fn(x - s e_j)) / (2 s)
JacobianCol(Fn, m, u, x, j) ==
    VScale(RInv(RMul(R(2), JacStep)),
           VSub(JacFnAt(Fn, m, u, Perturbed(x, j, JacStep)),
                JacFnAt(Fn, m, u, Perturbed(x, j, RNeg(JacStep)))))

Jacobian(Fn, m, u, x, rows) ==
    FromCols(Dense([j \in 1..Len(x) |-> JacobianCol(Fn, m, u, x, j)], Len(x)), rows)

\* fd.Central: the stencil of the central difference
Stencil == <<[loc |-> R(-1), coeff |-> Rat(-1, 2)], [loc |-> R(1), coeff |-> Rat(1, 2)]>>

\* the jobs of a concurrent fd.Jacobian over n columns, in the order they are
\* sent: for each point of the stencil, every column
JacJobs(n) == Dense([i \in 1..(2 * n) |-> [j |-> ((i - 1) % n) + 1, k |-> ((i - 1) \div n) + 1]],
                    2 * n)

\* copy(xcopy, x); xcopy[job.j] += job.pt.Loc * step
JobPoint(x, job) == Perturbed(x, job.j, RMul(Stencil[job.k].loc, JacStep))

\* col.AddScaledVec(&col, coeff, y) on column j of dst
AddScaledCol(dst, j, coeff, y) ==
    Dense([r \in 1..Rows(dst) |->
              [dst[r] EXCEPT ![j] = RAdd(dst[r][j], RMul(coeff, y[r]))]], Rows(dst))

\* the objects are allocated in this order: f, h, p, pNext, inn, k
EKFNew(h, m, init, z, wn) ==
    With(SystemDims(m), LAMBDA d :
    With(NoiseArg(z, d.nx, NewNone), LAMBDA q :
    With(NoiseArg(wn, d.ny, NewNone), LAMBDA r :
        IF d.nx <= 0 \/ d.ny <= 0 THEN NewFailed(h)
        ELSE IF q.err \/ r.err THEN NewFailed(h)
        ELSE Created(KalmanFields(Alloc(h, <<ZeroMat(d.nx, d.nx), ZeroMat(d.ny, d.nx)>>),
                                  init, d.nx, d.ny),
                     [kind |-> "EKF", m |-> m, q |-> q.nz, r |-> r.nz,
                      f |-> Len(h) + 1, h |-> Len(h) + 2,
                      p |-> Len(h) + 3, pNext |-> Len(h) + 4,
                      inn |-> Len(h) + 5, k |-> Len(h) + 6, n |-> 0]))))

EKFPredict(h, f, x, u, qs) ==
    With(Propagate(f.m, h[x], u, qs), LAMBDA xNext :
        IF xNext.err THEN Outcome("err", h, NoEst)
        ELSE IF JacobianPanics("FJacFn", f.m, u, h[x]) THEN Outcome("panic", h, NoEst)
        ELSE With(Store(h, f.f, Jacobian("FJacFn", f.m, u, h[x],
                                         Rows(h[f.f]))),
                  LAMBDA h1 :
             With(Store(h1, f.pNext,
                        SetSymAll(h1[f.pNext], PredictCov(h1[f.f], h1[f.p], f.q))),
                  LAMBDA h2 :
                      NewBaseWithCov(Alloc(h2, <<xNext.val>>), Len(h2) + 1, f.pNext))))

EKFUpdate(h, f, x, u, z, rs) ==
    IF Len(z) # SystemDims(f.m).ny THEN Outcome("err", h, NoEst)
    ELSE With(Observe(f.m, h[x], u, rs), LAMBDA y :
             IF y.err THEN Outcome("err", h, NoEst)
             ELSE IF JacobianPanics("HJacFn", f.m, u, h[x]) THEN Outcome("panic", h, NoEst)
             ELSE With(Store(h, f.h, Jacobian("HJacFn", f.m, u, h[x],
                                              Rows(h[f.h]))),
                       LAMBDA h1 :
                  With(KalmanGain(h1[f.pNext], h1[f.h], f.r), LAMBDA g :
                      IF g.err THEN Outcome("err", h1, NoEst)
                      ELSE Correct(h1, f, x, h1[f.h], g.gain, VSub(z, y.val)))))

EKFRun(h, f, x, u, z, qs, rs) ==
    With(EKFPredict(h, f, x, u, qs), LAMBDA pred :
        IF pred.res # "ok" THEN Outcome(pred.res, pred.h, NoEst)
        ELSE With(BaseVal(pred.h, pred.est), LAMBDA v :
                 EKFUpdate(v.h, f, v.id, u, z, rs)))

NewIter(h, m, init, z, wn, n) ==
    IF n <= 0 THEN NewFailed(h)
    ELSE With(EKFNew(h, m, init, z, wn), LAMBDA c :
             IF c.err THEN NewFailed(h)
             ELSE Created(c.h, [c.f EXCEPT !.kind = "IEKF", !.n = n]))

\* (the innovation taken anew from the current x in every iteration)
RECURSIVE IterLoopFreshInn(_, _, _, _, _, _)
IterLoopFreshInn(h, f, x, u, inn, i) ==
    IF i = 0 THEN [err |-> FALSE, panic |-> FALSE, h |-> h, gain |-> << >>]
    ELSE With(IterLoopFreshInn(h, f, x, u, inn, i - 1), LAMBDA prev :
        IF prev.err \/ prev.panic THEN prev
        ELSE With(Store(prev.h, f.h,
                        Jacobian("HJacFn", f.m, u, prev.h[x], Rows(prev.h[f.h]))),
                  LAMBDA h1 :
             With(KalmanGain(h1[f.pNext], h1[f.h], f.r), LAMBDA g :
                 IF g.err THEN [err |-> TRUE, panic |-> FALSE, h |-> h1, gain |-> << >>]
                 ELSE [err |-> FALSE, panic |-> FALSE,
                       h |-> Store(h1, x,
                                   VAdd(h1[x],
                                        MVec(g.gain,
                                             VAdd(inn, VSub(HJacFn(f.m, u, h[x]),
                                                            HJacFn(f.m, u, h1[x])))))),
                       gain |-> g.gain])))

\* the first i iterations of IEKF.Update: each recomputes the Jacobian and the
\* gain at the current x and adds gain * inn to x
RECURSIVE IterLoop(_, _, _, _, _, _)
IterLoop(h, f, x, u, inn, i) ==
    IF i = 0 THEN [err |-> FALSE, panic |-> FALSE, h |-> h, gain |-> << >>]
    ELSE With(IterLoop(h, f, x, u, inn, i - 1), LAMBDA prev :
        IF prev.err \/ prev.panic THEN prev
        ELSE IF JacobianPanics("HJacFn", f.m, u, prev.h[x])
        THEN [err |-> FALSE, panic |-> TRUE, h |-> prev.h, gain |-> << >>]
        ELSE With(Store(prev.h, f.h,
                        Jacobian("HJacFn", f.m, u, prev.h[x],
                                 Rows(prev.h[f.h]))),
                  LAMBDA h1 :
             With(KalmanGain(h1[f.pNext], h1[f.h], f.r), LAMBDA g :
                 IF g.err THEN [err |-> TRUE, panic |-> FALSE, h |-> h1, gain |-> << >>]
                 ELSE [err |-> FALSE, panic |-> FALSE,
                       h |-> Store(h1, x, VAdd(h1[x], MVec(g.gain, inn))),
                       gain |-> g.gain])))

IEKFUpdate(h, f, x, u, z, rs) ==
    IF Len(z) # SystemDims(f.m).ny THEN Outcome("err", h, NoEst)
    ELSE With(Observe(f.m, h[x], u, rs), LAMBDA y :
        IF y.err THEN Outcome("err", h, NoEst)
        ELSE With(IterLoop(h, f, x, u, VSub(z, y.val), f.n), LAMBDA it :
            IF it.err THEN Outcome("err", it.h, NoEst)
            ELSE IF it.panic THEN Outcome("panic", it.h, NoEst)
            ELSE With(StoreCorrection(it.h, f, VSub(z, y.val), it.gain,
                                      JosephForm(it.gain, it.h[f.h], it.h[f.pNext],
                                                 f.r, Len(it.h[x])),
                                      SystemDims(f.m).nx),
                      LAMBDA st :
                          IF st.panic THEN Outcome("panic", st.h, NoEst)
                          ELSE With(Cov(st.h, f), LAMBDA c :
                                   NewBaseWithCov(c.h, x, c.id)))))

IEKFRun(h, f, x, u, z, qs, rs) ==
    With(EKFPredict(h, f, x, u, qs), LAMBDA pred :
        IF pred.res # "ok" THEN Outcome(pred.res, pred.h, NoEst)
        ELSE With(BaseVal(pred.h, pred.est), LAMBDA v :
                 IEKFUpdate(v.h, f, v.id, u, z, rs)))

-----------------------------------------------------------------------------
(* kalman/ukf: the unscented Kalman filter *)

\* the whole number whose square is n, or -1 when n is no square
IntRoot(n) == IF \E k \in 0..n : k * k = n THEN CHOOSE k \in 0..n : k * k = n ELSE -1

\* math.Sqrt where the root is rational; NIL where it is not (such a value is
\* outside of what this model represents)
Sqrt(a) ==
    IF a[2] = 0 THEN (IF a = Inf THEN Inf ELSE NaN)
    ELSE IF a[1] < 0 THEN NaN
    ELSE IF IntRoot(a[1]) >= 0 /\ IntRoot(a[2]) >= 0 THEN <<IntRoot(a[1]), IntRoot(a[2])>>
    ELSE NIL

\* b placed below and to the right of a
BlockDiag2(a, b) ==
    Dense([i \in 1..(Rows(a) + Rows(b)) |->
              Dense([j \in 1..(Rows(a) + Rows(b)) |->
                        IF i <= Rows(a) /\ j <= Rows(a) THEN a[i][j]
                        ELSE IF i > Rows(a) /\ j > Rows(a)
                             THEN b[i - Rows(a)][j - Rows(a)]
                             ELSE R(0)],
                    Rows(a) + Rows(b))],
          Rows(a) + Rows(b))

\* matrix.BlockSymDiag: the blocks placed along the diagonal
RECURSIVE BlockSymDiag(_)
BlockSymDiag(blocks) ==
    IF Len(blocks) = 0 THEN << >>
    ELSE BlockDiag2(blocks[1], BlockSymDiag(Tail(blocks)))

IsDiagonal(m) == \A i \in 1..Rows(m) : \A j \in 1..Cols(m) : i # j => m[i][j] = R(0)

\* s with v inserted before the first element smaller than v
RECURSIVE InsertDesc(_, _)
InsertDesc(s, v) ==
    IF Len(s) = 0 THEN <<v>>
    ELSE IF RGt(v, s[1]) THEN <<v>> \o s
    ELSE <<s[1]>> \o InsertDesc(Tail(s), v)

RECURSIVE SortDesc(_)
SortDesc(s) == IF Len(s) = 0 THEN << >> ELSE InsertDesc(SortDesc(Tail(s)), s[1])

\* mat.SVD.Values of a finite diagonal matrix: the absolute values of the
\* diagonal in descending order; NIL for any other matrix
SVDValues(m) ==
    IF IsDiagonal(m) /\ \A i \in 1..Rows(m) : IsFinite(m[i][i])
    THEN SortDesc(Dense([i \in 1..Rows(m) |-> <<Abs(m[i][i][1]), m[i][i][2]>>], Rows(m)))
    ELSE NIL

NewConfig(alpha, beta, kappa) == [Alpha |-> alpha, Beta |-> beta, Kappa |-> kappa]

\* the dimension a noise adds to a sigma point: nil adds nothing
SpDimOf(nz) == IF nz.kind = "nil" THEN 0 ELSE SymmetricDim(NoiseCov(nz))

\* lambda := Alpha * Alpha * (spDim + Kappa) - spDim
Lambda(c, spDim) == RSub(RMul(RMul(c.Alpha, c.Alpha), RAdd(R(spDim), c.Kappa)), R(spDim))

\* the fields New computes from the configuration
UKFParams(c, spDim, lambda) ==
    [gamma |-> Sqrt(RAdd(R(spDim), lambda)),
     Wm0   |-> RDiv(lambda, RAdd(R(spDim), lambda)),
     Wc0   |-> RAdd(RDiv(lambda, RAdd(R(spDim), lambda)),
                    RAdd(RSub(R(1), RMul(c.Alpha, c.Alpha)), c.Beta)),
     W     |-> RDiv(R(1), RMul(R(2), RAdd(R(spDim), lambda)))]

\* the objects are allocated in this order: sp.X, sp.Cov, spNext.x,
\* spNext.xMean, pNext, p, inn, k
UKFFields(h, init, q, r, nx, ny, spDim) ==
    Alloc(h, <<ZeroMat(spDim, 2 * spDim + 1),
               BlockSymDiag(<<init.cov, NoiseCov(q), NoiseCov(r)>>),
               ZeroMat(nx, 2 * spDim + 1), ZeroVec(nx),
               CopySym(init.cov), CopySym(init.cov), ZeroVec(ny), ZeroMat(nx, ny)>>)

UKFNew(h, m, init, z, wn, c) ==
    With(SystemDims(m), LAMBDA d :
    With(NoiseArg(z, d.nx, NewNone), LAMBDA q :
    With(NoiseArg(wn, d.ny, NewNone), LAMBDA r :
    With(Len(init.state) + SpDimOf(z) + SpDimOf(wn), LAMBDA spDim :
    With(UKFParams(c, spDim, Lambda(c, spDim)), LAMBDA par :
        IF d.nx <= 0 \/ d.ny <= 0 THEN NewFailed(h)
        ELSE IF q.err \/ r.err THEN NewFailed(h)
        ELSE Created(UKFFields(h, init, q.nz, r.nz, d.nx, d.ny, spDim),
                     [kind |-> "UKF", m |-> m, q |-> q.nz, r |-> r.nz,
                      gamma |-> par.gamma, Wm0 |-> par.Wm0, Wc0 |-> par.Wc0,
                      W |-> par.W,
                      sp |-> [X |-> Len(h) + 1, Cov |-> Len(h) + 2],
                      spNext |-> [x |-> Len(h) + 3, xMean |-> Len(h) + 4],
                      pNext |-> Len(h) + 5, p |-> Len(h) + 6,
                      inn |-> Len(h) + 7, k |-> Len(h) + 8]))))))

\* the diagonal matrix of the roots of vals, scaled by gamma
ScaledRoots(vals, gamma) ==
    Dense([i \in 1..Len(vals) |->
              Dense([j \in 1..Len(vals) |->
                        IF i = j THEN RMul(gamma, Sqrt(vals[i])) ELSE R(0)],
                    Len(vals))],
          Len(vals))

\* (cov added to both halves of the columns)
SigmaColumnsAdded(x, cov, rows, cols) ==
    Dense([i \in 1..rows |->
              Dense([j \in 1..cols |->
                        IF j = 1 THEN (IF i <= Len(x) THEN x[i] ELSE R(0))
                        ELSE RAdd(IF i <= Len(x) THEN x[i] ELSE R(0),
                                  cov[i][((j - 2) % ((cols - 1) \div 2)) + 1])],
                    cols)],
          rows)

\* the sigma points: every column is x (over the rows x has), then cov is
\* added to the first half of the columns after the first and subtracted
\* from the second half
SigmaColumns(x, cov, rows, cols) ==
    Dense([i \in 1..rows |->
              Dense([j \in 1..cols |->
                        IF j = 1 THEN (IF i <= Len(x) THEN x[i] ELSE R(0))
                        ELSE IF j <= 1 + ((cols - 1) \div 2)
                        THEN RAdd(IF i <= Len(x) THEN x[i] ELSE R(0), cov[i][j - 1])
                        ELSE RSub(IF i <= Len(x) THEN x[i] ELSE R(0),
                                  cov[i][j - 1 - ((cols - 1) \div 2)])],
                    cols)],
          rows)

\* ok is FALSE where the singular values or their roots are outside of the
\* model: the factorization then fails or yields other sigma points, and
\* Predict ends in an error if the propagation of x does
GenSigmaPoints(h, f, x) ==
    With(SVDValues(BlockSymDiag(<<h[f.p], NoiseCov(f.q), NoiseCov(f.r)>>)), LAMBDA vals :
        IF vals = NIL \/ f.gamma = NIL \/ \E i \in 1..Len(vals) : Sqrt(vals[i]) = NIL
        THEN [ok |-> FALSE, X |-> << >>, Cov |-> << >>]
        ELSE With(ScaledRoots(vals, f.gamma), LAMBDA cov :
                 [ok |-> TRUE,
                  X |-> SigmaColumns(x, cov, Rows(h[f.sp.X]), Cols(h[f.sp.X])),
                  Cov |-> cov]))

\* the weight of sigma point c in a mean, and in a covariance
MeanWeight(f, c) == IF c = 1 THEN f.Wm0 ELSE f.W

CovWeight(f, c) == IF c = 1 THEN f.Wc0 ELSE f.W

\* the mean of the columns of x weighted by Wm0 (column 1) and W (the others),
\* accumulated from the left
WeightedMean(f, x, n, cols) ==
    Dense([i \in 1..n |->
              RSum(Dense([c \in 1..cols |-> RMul(MeanWeight(f, c), x[i][c])], cols))],
          n)

\* the results of the calls made for the columns, as the columns of a matrix
ColumnsOf(outs, rows, cols) ==
    Dense([i \in 1..rows |-> Dense([c \in 1..cols |-> outs[c].val[i]], cols)], rows)

\* every sigma point propagated: its first nx entries are the state, the
\* next qLen entries the process noise
PropagateColumns(f, X, u, nx, qLen, cols) ==
    Dense([c \in 1..cols |->
              IF qLen = 0
              THEN Propagate(f.m, SliceVec(Col(X, c), 0, nx), u, NIL)
              ELSE Propagate(f.m, SliceVec(Col(X, c), 0, nx), u,
                             SliceVec(Col(X, c), nx, nx + qLen))],
          cols)

propagateSigmaPoints(f, sp, u) ==
    With(SystemDims(f.m).nx, LAMBDA nx :
    With(PropagateColumns(f, sp.X, u, nx, SymmetricDim(NoiseCov(f.q)), Cols(sp.X)),
         LAMBDA nxt :
             IF \E c \in 1..Cols(sp.X) : nxt[c].err
             THEN [err |-> TRUE, x |-> << >>, xMean |-> << >>]
             ELSE With(ColumnsOf(nxt, nx, Cols(sp.X)), LAMBDA x :
                      [err |-> FALSE, x |-> x,
                       xMean |-> WeightedMean(f, x, nx, Cols(sp.X))])))

\* the sum over the columns c of w * (x_c - xMean)(y_c - yMean)', accumulated
\* from the left; w is Wc0 for column 1 and W for the others
WeightedCov(f, x, xMean, y, yMean, cols) ==
    Dense([i \in 1..Len(xMean) |->
              Dense([j \in 1..Len(yMean) |->
                        RSum(Dense([c \in 1..cols |->
                                       RMul(CovWeight(f, c),
                                            RMul(RSub(x[i][c], xMean[i]),
                                                 RSub(y[j][c], yMean[j])))],
                                   cols))],
                    Len(yMean))],
          Len(xMean))

\* the entries i <= j of acc, mirrored
UpperMirrored(acc, n) ==
    Dense([i \in 1..n |->
              Dense([j \in 1..n |-> IF i <= j THEN acc[i][j] ELSE acc[j][i]], n)],
          n)

\* predCov.SetSym(i, j, predCov.At(i, j) + cov.At(i, j)) over the upper
\* triangle i <= j, for every column
predictCovariance(f, x, xMean) ==
    UpperMirrored(WeightedCov(f, x, xMean, x, xMean, Cols(x)), Rows(x))

\* the end of Predict: the internal state is updated, and the estimate built
\* from xNext and cov
StorePrediction(h, f, spn, xNext, cov) ==
    With(Store(Store(Store(h, f.spNext.x, spn.x), f.spNext.xMean, spn.xMean),
               f.pNext, CopySym(cov)),
         LAMBDA h1 :
             NewBaseWithCov(Alloc(h1, <<xNext, cov>>), Len(h1) + 1, Len(h1) + 2))

UKFPredict(h, f, x, u, qs) ==
    With(GenSigmaPoints(h, f, h[x]), LAMBDA sigmaPoints :
        With(Propagate(f.m, h[x], u, qs), LAMBDA xNext :
            IF ~sigmaPoints.ok
            THEN Outcome(IF xNext.err THEN "err" ELSE "unmodelled", h, NoEst)
            ELSE IF xNext.err THEN Outcome("err", h, NoEst)
            ELSE With(propagateSigmaPoints(f, sigmaPoints, u), LAMBDA spn :
                IF spn.err THEN Outcome("err", h, NoEst)
                ELSE StorePrediction(h, f, spn, xNext.val,
                                     predictCovariance(f, spn.x, spn.xMean)))))

\* the output of every predicted sigma point; rs[c] is the output-noise
\* sample drawn for column c
ObserveColumns(f, X, u, rs, cols) ==
    Dense([c \in 1..cols |->
              IF SymmetricDim(NoiseCov(f.r)) = 0 THEN Observe(f.m, Col(X, c), u, NIL)
              ELSE Observe(f.m, Col(X, c), u, rs[c])],
          cols)

\* (the correction added to the state handed over instead of the stored mean)
UKFCorrectFromX(h, f, x, gain, pyy, inn) ==
    IF Len(h[x]) # Len(h[f.spNext.xMean]) THEN Outcome("panic", h, NoEst)
    ELSE With(Store(h, x, VAdd(h[x], MVec(gain, inn))), LAMBDA h1 :
         With(StoreCorrection(h1, f, inn, gain,
                              MSub(h1[f.pNext], MMul(MMul(gain, pyy), MT(gain))),
                              SystemDims(f.m).nx),
              LAMBDA st : NewBaseWithCov(st.h, x, f.p)))

\* Update from the gain on: x = xMean + K inn in place (a panic when x has
\* another length than xMean), pCorr = pNext - K Pyy K'
UKFCorrect(h, f, x, gain, pyy, inn) ==
    IF Len(h[x]) # Len(h[f.spNext.xMean]) THEN Outcome("panic", h, NoEst)
    ELSE With(Store(h, x, VAdd(h[f.spNext.xMean], MVec(gain, inn))), LAMBDA h1 :
         With(StoreCorrection(h1, f, inn, gain,
                              MSub(h1[f.pNext], MMul(MMul(gain, pyy), MT(gain))),
                              SystemDims(f.m).nx),
              LAMBDA st : NewBaseWithCov(st.h, x, f.p)))

\* Update from the sigma-point outputs y on
UKFGain(h, f, x, z, y, yMean, cols) ==
    With(WeightedCov(f, y, yMean, y, yMean, cols), LAMBDA pyy :
    With(Inverse(pyy), LAMBDA pyyInv :
        IF pyyInv.err THEN Outcome("err", h, NoEst)
        ELSE UKFCorrect(h, f, x,
                        MMul(WeightedCov(f, h[f.spNext.x], h[f.spNext.xMean],
                                         y, yMean, cols),
                             pyyInv.val),
                        pyy, VSub(z, yMean))))

UKFUpdate(h, f, x, u, z, rs) ==
    With(SystemDims(f.m).ny, LAMBDA ny :
    With(Cols(h[f.spNext.x]), LAMBDA cols :
        IF Len(z) # ny THEN Outcome("err", h, NoEst)
        ELSE With(ObserveColumns(f, h[f.spNext.x], u, rs, cols), LAMBDA out :
            IF \E c \in 1..cols : out[c].err THEN Outcome("err", h, NoEst)
            ELSE With(ColumnsOf(out, ny, cols), LAMBDA y :
                     UKFGain(h, f, x, z, y, WeightedMean(f, y, ny, cols), cols)))))

UKFRun(h, f, x, u, z, qs, rs) ==
    With(UKFPredict(h, f, x, u, qs), LAMBDA pred :
        IF pred.res # "ok" THEN Outcome(pred.res, pred.h, NoEst)
        ELSE With(BaseVal(pred.h, pred.est), LAMBDA v :
                 UKFUpdate(v.h, f, v.id, u, z, rs)))

-----------------------------------------------------------------------------
(* rand, matrix.Cov and particle/bf: the bootstrap particle filter *)

Drawn(val) == [err |-> FALSE, val |-> val]

NotDrawn == [err |-> TRUE, val |-> << >>]

\* the largest absolute value among the entries of v
RECURSIVE MaxAbs(_)
MaxAbs(v) ==
    IF Len(v) = 0 THEN R(0)
    ELSE IF RGt(<<Abs(v[1][1]), v[1][2]>>, MaxAbs(Tail(v))) THEN <<Abs(v[1][1]), v[1][2]>>
    ELSE MaxAbs(Tail(v))

\* a column scaled to entries between -1 and 1 (a zero column stays zero)
UnitCol(v) == IF MaxAbs(v) = R(0) THEN v ELSE VScale(RInv(MaxAbs(v)), v)

\* the samples of WithCovN that are not zero: sample c is plus or minus the
\* scaled first column of cov
SpreadSamples(cov, n) ==
    Dense([i \in 1..Rows(cov) |->
              Dense([c \in 1..n |->
                        RMul(R(IF c % 2 = 1 THEN 1 ELSE -1), UnitCol(Col(cov, 1))[i])],
                    n)],
          Rows(cov))

NaNMat(r, c) == Dense([i \in 1..r |-> Dense([j \in 1..c |-> NaN], c)], r)

\* rand.WithCovN: the n samples (columns) it may return.  A sample lies in
\* the column space of cov.  The factorization of a matrix with a non-finite
\* entry may fail or yield NaN samples.
WithCovN(cov, n) ==
    IF n <= 0 THEN {NotDrawn}
    ELSE IF \E i \in 1..Rows(cov) : \E j \in 1..Rows(cov) : ~IsFinite(cov[i][j])
    THEN {NotDrawn, Drawn(NaNMat(Rows(cov), n))}
    ELSE {Drawn(ZeroMat(Rows(cov), n)), Drawn(SpreadSamples(cov, n))}

\* distuv.UnitUniform.Rand(): values of [0, 1)
UnitUniform == {R(0), Rat(1, 4), Rat(1, 2), Rat(3, 4)}

\* floats.CumSum(cdf, p)
CumSum(p) == Dense([i \in 1..Len(p) |-> RSumTo(p, i)], Len(p))

\* (the cumulative weight reaches the value, or exceeds it)
AtLeast(c, val) == c = val \/ RGt(c, val)

\* func(i int) bool { return cdf[i] > val }
Above(c, val) == RGt(c, val)

\* sort.Search(len(cdf), f) between i and j (0-based): the smallest index for
\* which f is true, len(cdf) when there is none
RECURSIVE Search(_, _, _, _)
Search(cdf, val, i, j) ==
    IF i >= j THEN i
    ELSE IF Above(cdf[((i + j) \div 2) + 1], val)
    THEN Search(cdf, val, i, (i + j) \div 2)
    ELSE Search(cdf, val, ((i + j) \div 2) + 1, j)

\* one index: val = u * cdf[len(cdf)-1], then the search (the index is the
\* 1-based position of an entry of p; len(p) + 1 is one past the last entry)
RouletteDraw(cdf, u) == Search(cdf, RMul(u, cdf[Len(cdf)]), 0, Len(cdf)) + 1

\* rand.RouletteDrawN(p, n): the index sequences it may return, one for each
\* sequence of values the generator draws
RouletteDrawN(p, n) ==
    IF Len(p) = 0 THEN {NotDrawn}
    ELSE {Drawn(Dense([i \in 1..n |-> RouletteDraw(CumSum(p), us[i])], n)) :
             us \in [1..n -> UnitUniform]}

\* the rows of m minus their means
Centred(m, cols) ==
    Dense([r \in 1..Rows(m) |->
              Dense([c \in 1..cols |->
                        RSub(m[r][c], RMul(RInv(R(cols)), RSum(m[r])))],
                    cols)],
          Rows(m))

\* matrix.Cov(m, "cols"): 1/(cols-1) * x x', x the rows of m minus their means
MatrixCov(m) ==
    With(Centred(m, Cols(m)), LAMBDA x :
        MScale(RInv(RSub(R(Cols(m)), R(1))), MMul(x, MT(x))))

\* matrix.ToSymDense(m) succeeds: every pair of mirrored entries is equal
\* (floats.EqualWithinAbsOrRel is false as soon as one of the two is NaN)
ToSymDense(m) ==
    \A i \in 1..Rows(m) : \A j \in 1..Rows(m) :
        i # j => ~IsNaN(m[i][j]) /\ ~IsNaN(m[j][i]) /\ m[i][j] = m[j][i]

\* math.Exp(errPDF.LogProb(inn)) for two output-error densities: a uniform
\* density on [-3, 3]^n, and a density that is positive everywhere (1/2 on
\* [-3, 3]^n and 1/4 outside)
NewUniform == [kind |-> "Uniform"]

NewKernel == [kind |-> "Kernel"]

\* inn lies in [-3, 3]^n
Inside(inn) ==
    \A i \in 1..Len(inn) :
        /\ ~IsNaN(inn[i])
        /\ ~RGt(inn[i], R(3))
        /\ ~RGt(R(-3), inn[i])

Likelihood(pdf, inn) ==
    IF pdf.kind = "Uniform"
    THEN (IF Inside(inn) THEN Rat(1, 6) ELSE R(0))
    ELSE (IF Inside(inn) THEN Rat(1, 2) ELSE Rat(1, 4))

\* the particles: the drawn samples centred on the initial state
CentredOn(draw, state) ==
    Dense([i \in 1..Rows(draw) |->
              Dense([c \in 1..Cols(draw) |-> RAdd(draw[i][c], state[i])], Cols(draw))],
          Rows(draw))

EqualWeights(p) == Dense([i \in 1..p |-> RDiv(R(1), R(p))], p)

\* draw is what rand.WithCovN returned; the objects are allocated in this
\* order: w, x, y, inn
BFNew(h, m, ic, z, wn, p, pdf, draw) ==
    With(SystemDims(m), LAMBDA d :
    With(NoiseArg(z, d.nx, NewZero(d.nx)), LAMBDA q :
    With(NoiseArg(wn, d.ny, NewZero(d.ny)), LAMBDA r :
        IF p <= 0 THEN NewFailed(h)
        ELSE IF d.nx <= 0 \/ d.ny <= 0 THEN NewFailed(h)
        ELSE IF q.err \/ r.err THEN NewFailed(h)
        ELSE IF draw.err THEN NewFailed(h)
        ELSE Created(Alloc(h, <<EqualWeights(p), CentredOn(draw.val, ic.state),
                                ZeroMat(d.ny, p), ZeroVec(d.ny)>>),
                     [kind |-> "BF", m |-> m, q |-> q.nz, r |-> r.nz,
                      w |-> Len(h) + 1, x |-> Len(h) + 2,
                      y |-> Len(h) + 3, inn |-> Len(h) + 4, errPDF |-> pdf]))))

\* every particle propagated; qs[1 + c] is the sample drawn for particle c
PropagateParticles(f, X, u, qs, n) ==
    Dense([c \in 1..n |-> Propagate(f.m, Col(X, c), u, qs[1 + c])], n)

\* qs[1] is the sample drawn for x
BFPredict(h, f, x, u, qs) ==
    With(Propagate(f.m, h[x], u, qs[1]), LAMBDA xNext :
        IF xNext.err THEN Outcome("err", h, NoEst)
        ELSE With(PropagateParticles(f, h[f.x], u, qs, Len(h[f.w])), LAMBDA nxt :
            IF \E c \in 1..Len(h[f.w]) : nxt[c].err THEN Outcome("err", h, NoEst)
            ELSE With(Store(h, f.x, ColumnsOf(nxt, Rows(h[f.x]), Cols(h[f.x]))),
                      LAMBDA h1 :
                          NewBase(Alloc(h1, <<xNext.val>>), Len(h1) + 1))))

\* the output of every particle; rs[c] is the sample drawn for particle c
ObserveParticles(f, X, u, rs, n) ==
    Dense([c \in 1..n |-> Observe(f.m, Col(X, c), u, rs[c])], n)

\* (the likelihoods alone, the weights before the call being dropped)
ReweightedAfresh(w, pdf, z, out, n) ==
    Dense([c \in 1..n |-> Likelihood(pdf, VSub(z, out[c].val))], n)

\* b.w[c] = b.w[c] * exp(LogProb(z - y_c))
Reweighted(w, pdf, z, out, n) ==
    Dense([c \in 1..n |-> RMul(w[c], Likelihood(pdf, VSub(z, out[c].val)))], n)

\* floats.Scale(1 / floats.Sum(w), w)
Normalized(w) == VScale(RDiv(R(1), RSum(w)), w)

\* the weighted average of the particles
WeightedAvg(w, X, n) ==
    Dense([i \in 1..Rows(X) |->
              RSum(Dense([c \in 1..n |-> RMul(w[c], X[i][c])], n))],
          Rows(X))

\* Update from the weights on: inn is left holding the innovation of the last
\* particle
BFCorrect(h, f, z, out, w, n) ==
    With(Store(Store(Store(h, f.inn, VSub(z, out[n].val)), f.w, w),
               f.y, ColumnsOf(out, Rows(h[f.y]), n)),
         LAMBDA h1 :
             NewBase(Alloc(h1, <<WeightedAvg(w, h[f.x], n)>>), Len(h1) + 1))

BFUpdate(h, f, x, u, z, rs) ==
    IF Len(z) # Len(h[f.inn]) THEN Outcome("err", h, NoEst)
    ELSE With(ObserveParticles(f, h[f.x], u, rs, Len(h[f.w])), LAMBDA out :
        IF \E c \in 1..Len(h[f.w]) : out[c].err THEN Outcome("err", h, NoEst)
        ELSE BFCorrect(h, f, z, out,
                       Normalized(Reweighted(h[f.w], f.errPDF, z, out, Len(h[f.w]))),
                       Len(h[f.w])))

BFRun(h, f, x, u, z, qs, rs) ==
    With(BFPredict(h, f, x, u, qs), LAMBDA pred :
        IF pred.res # "ok" THEN Outcome(pred.res, pred.h, NoEst)
        ELSE With(BaseVal(pred.h, pred.est), LAMBDA v :
                 BFUpdate(v.h, f, v.id, u, z, rs)))

\* AlphaGauss(r, c) = (4 / (c (r + 2))) ^ (1 / (r + 4)): 1 where the base is 1,
\* NIL where it is not rational
AlphaGauss(r, c) == IF c * (r + 2) = 4 THEN R(1) ELSE NIL

\* (the columns copied one after the other from the matrix being overwritten)
RECURSIVE PickLoop(_, _, _)
PickLoop(x, indices, c) ==
    IF c > Cols(x) THEN x
    ELSE PickLoop(Dense([i \in 1..Rows(x) |-> [x[i] EXCEPT ![c] = x[i][indices[c]]]],
                        Rows(x)),
                  indices, c + 1)

PickedInPlace(x, indices) == PickLoop(x, indices, 1)

\* the particles picked by indices: column c is column indices[c] of the
\* clone of b.x taken before the loop
Picked(x, indices) ==
    Dense([i \in 1..Rows(x) |->
              Dense([c \in 1..Cols(x) |-> x[i][indices[c]]], Cols(x))],
          Rows(x))

\* the end of Resample: the perturbations m scaled by alpha are added
Perturb(h, f, alpha, m) ==
    IF m = ZeroMat(Rows(h[f.x]), Cols(h[f.x])) THEN Outcome("ok", h, NoEst)
    ELSE IF alpha = NIL THEN Outcome("unmodelled", h, NoEst)
    ELSE Outcome("ok", Store(h, f.x, MAdd(h[f.x], MScale(alpha, m))), NoEst)

\* indices is what rand.RouletteDrawN returned and m what rand.WithCovN
\* returned
Resample(h, f, alpha, indices, m) ==
    IF indices.err THEN Outcome("err", h, NoEst)
    ELSE IF \E c \in 1..Len(h[f.w]) : indices.val[c] > Cols(h[f.x])
    THEN Outcome("panic", h, NoEst)
    ELSE With(Store(Store(h, f.x, Picked(h[f.x], indices.val)),
                    f.w, EqualWeights(Len(h[f.w]))),
              LAMBDA h1 :
                  IF m.err THEN Outcome("err", h1, NoEst)
                  ELSE Perturb(h1, f,
                               IF RGt(alpha, R(0)) THEN alpha
                               ELSE AlphaGauss(Rows(h[f.x]), Cols(h[f.x])),
                               m.val))

\* Particles and Weights hand out copies
Particles(h, f) == Fresh(h, h[f.x])

Weights(h, f) == Fresh(h, h[f.w])

-----------------------------------------------------------------------------
(* smooth/rts and smooth/erts: the constructors of the smoothers *)

RTSNew(h, m, init, q) ==
    With(SystemDims(m), LAMBDA d :
    With(NoiseArg(q, d.nx, NewNone), LAMBDA qa :
        IF d.nx <= 0 \/ d.ny <= 0 THEN NewFailed(h)
        ELSE IF qa.err THEN NewFailed(h)
        ELSE Created(h, [kind |-> "RTS", m |-> m, q |-> qa.nz, start |-> init])))

\* f, the propagation Jacobian, is the one object New allocates
ERTSNew(h, m, init, q) ==
    With(SystemDims(m), LAMBDA d :
    With(NoiseArg(q, d.nx, NewNone), LAMBDA qa :
        IF d.nx <= 0 \/ d.ny <= 0 THEN NewFailed(h)
        ELSE IF qa.err THEN NewFailed(h)
        ELSE Created(Alloc(h, <<ZeroMat(d.nx, d.nx)>>),
                     [kind |-> "ERTS", m |-> m, q |-> qa.nz, start |-> init,
                      f |-> Len(h) + 1])))

-----------------------------------------------------------------------------
(* RTS.Smooth and ERTS.Smooth: the backward pass over a sequence of estimates *)

\* the heap after ERTS computed the propagation Jacobian at x into s.f; RTS
\* uses the system matrix and computes nothing
Linearised(h, s, x, uEst) ==
    IF s.kind = "ERTS"
    THEN Store(h, s.f, Jacobian("FJacFn", s.m, uEst, x, Rows(h[s.f])))
    ELSE h

\* s.m.SystemMatrix() for RTS, s.f for ERTS
SmoothF(h, s) == IF s.kind = "ERTS" THEN h[s.f] ELSE s.m.A

\* c = P_k F' P_(k+1)^-1
SmoothGain(F, p, pinv) == MMul(MMul(p, MT(F)), pinv)

\* x = x_k + c (x_e - x_(k+1))
SmoothedVal(x, c, xe, xk1) == VAdd(x, MVec(c, VSub(xe, xk1)))

\* pk = P_k + c (P_e - P_(k+1)) c'
SmoothedCov(p, c, pe, pk1) == MAdd(p, MMul(MMul(c, MSub(pe, pk1)), MT(c)))

\* one iteration of the loop: ei is est[i], e the estimate smoothed last (the
\* initial condition for the last element), q the noise sample drawn
SmoothStep(h, s, ei, uEst, e, q) ==
    With(Propagate(s.m, h[ei.val], uEst, q), LAMBDA xk1 :
        IF xk1.err THEN Outcome("err", h, NoEst)
        ELSE IF s.kind = "ERTS" /\ JacobianPanics("FJacFn", s.m, uEst, h[ei.val])
        THEN Outcome("panic", h, NoEst)
        ELSE With(Linearised(h, s, h[ei.val], uEst), LAMBDA h1 :
             With(PredictCov(SmoothF(h1, s), h1[ei.cov], s.q), LAMBDA pk1 :
             With(Inverse(pk1), LAMBDA pinv :
                 IF pinv.err THEN Outcome("err", h1, NoEst)
                 ELSE IF Len(h1[e.val]) # Len(xk1.val) THEN Outcome("panic", h1, NoEst)
                 ELSE With(SmoothGain(SmoothF(h1, s), h1[ei.cov], pinv.val), LAMBDA c :
                          NewBaseWithCov(
                              Alloc(h1, <<SmoothedVal(h1[ei.val], c, h1[e.val], xk1.val),
                                          SetSymUpper(ZeroMat(Rows(pk1), Rows(pk1)),
                                                      SmoothedCov(h1[ei.cov], c, h1[e.cov], pk1),
                                                      Rows(pk1))>>),
                              Len(h1) + 1, Len(h1) + 2))))))

\* the loop with every element anchored on the initial condition
RECURSIVE SmoothLoopFromStart(_, _, _, _, _, _, _, _)
SmoothLoopFromStart(h, s, est, u, qs, i, e, sx) ==
    IF i = 0 THEN Outcome("ok", h, sx)
    ELSE With(SmoothStep(h, s, est[i], IF u # NIL THEN u[i] ELSE NIL, e, qs[i]),
              LAMBDA o :
                  IF o.res # "ok" THEN Outcome(o.res, o.h, NIL)
                  ELSE SmoothLoopFromStart(o.h, s, est, u, qs, i - 1, e,
                                           [sx EXCEPT ![i] = o.est]))

\* for i := len(est) - 1; i >= 0; i--: sx[i] is smoothed from est[i] and e
RECURSIVE SmoothLoop(_, _, _, _, _, _, _, _)
SmoothLoop(h, s, est, u, qs, i, e, sx) ==
    IF i = 0 THEN Outcome("ok", h, sx)
    ELSE With(SmoothStep(h, s, est[i], IF u # NIL THEN u[i] ELSE NIL, e, qs[i]),
              LAMBDA o :
                  IF o.res # "ok" THEN Outcome(o.res, o.h, NIL)
                  ELSE SmoothLoop(o.h, s, est, u, qs, i - 1, o.est,
                                  [sx EXCEPT ![i] = o.est]))

\* Smooth without the check of the length of u
SmoothAnyInputs(h, s, est, u, qs) ==
    IF est = NIL THEN Outcome("err", h, NIL)
    ELSE With(NewBaseWithCov(Alloc(h, <<s.start.state, s.start.cov>>),
                             Len(h) + 1, Len(h) + 2),
              LAMBDA e :
                  IF e.res # "ok" THEN Outcome("err", h, NIL)
                  ELSE SmoothLoop(e.h, s, est, IF u # NIL /\ Len(u) # Len(est) THEN NIL ELSE u,
                                  qs, Len(est), e.est,
                                  Dense([i \in 1..Len(est) |-> NoEst], Len(est))))

\* est is NIL (a nil slice) or a sequence of estimates, u is NIL or a sequence
\* of input vectors, qs holds the noise sample drawn in each iteration; the
\* result carries NIL on an error and the smoothed estimates otherwise
Smooth(h, s, est, u, qs) ==
    IF est = NIL THEN Outcome("err", h, NIL)
    ELSE IF u # NIL /\ Len(u) # Len(est) THEN Outcome("err", h, NIL)
    ELSE With(NewBaseWithCov(Alloc(h, <<s.start.state, s.start.cov>>),
                             Len(h) + 1, Len(h) + 2),
              LAMBDA e :
                  IF e.res # "ok" THEN Outcome("err", h, NIL)
                  ELSE SmoothLoop(e.h, s, est, u, qs, Len(est), e.est,
                                  Dense([i \in 1..Len(est) |-> NoEst], Len(est))))

-----------------------------------------------------------------------------
(* the filters behind the filter.Filter interface *)

Predict(h, f, x, u, qs) ==
    CASE f.kind = "KF"   -> KFPredict(h, f, x, u, qs[1])
      [] f.kind = "EKF"  -> EKFPredict(h, f, x, u, qs[1])
      [] f.kind = "IEKF" -> EKFPredict(h, f, x, u, qs[1])
      [] f.kind = "UKF"  -> UKFPredict(h, f, x, u, qs[1])
      [] f.kind = "BF"   -> BFPredict(h, f, x, u, qs)

Update(h, f, x, u, z, rs) ==
    CASE f.kind = "KF"   -> KFUpdate(h, f, x, u, z, rs[1])
      [] f.kind = "EKF"  -> EKFUpdate(h, f, x, u, z, rs[1])
      [] f.kind = "IEKF" -> IEKFUpdate(h, f, x, u, z, rs[1])
      [] f.kind = "UKF"  -> UKFUpdate(h, f, x, u, z, rs)
      [] f.kind = "BF"   -> BFUpdate(h, f, x, u, z, rs)

Run(h, f, x, u, z, qs, rs) ==
    CASE f.kind = "KF"   -> KFRun(h, f, x, u, z, qs[1], rs[1])
      [] f.kind = "EKF"  -> EKFRun(h, f, x, u, z, qs[1], rs[1])
      [] f.kind = "IEKF" -> IEKFRun(h, f, x, u, z, qs[1], rs[1])
      [] f.kind = "UKF"  -> UKFRun(h, f, x, u, z, qs[1], rs)
      [] f.kind = "BF"   -> BFRun(h, f, x, u, z, qs, rs)

\* the process-noise and output-noise samples one Predict / one Update draws
\* (the BF draws a sample per particle and the UKF an output-noise sample per
\* sigma point: here the n samples of one call are equal)
Draws(S, n) == {Dense([c \in 1..n |-> s], n) : s \in S}

QDraws(h, f) ==
    IF f.kind = "BF" THEN Draws(NoiseSample(f.q), 1 + Len(h[f.w]))
    ELSE Draws(NoiseSample(f.q), 1)

RDraws(h, f) ==
    CASE f.kind = "BF"  -> Draws(NoiseSample(f.r), Len(h[f.w]))
      [] f.kind = "UKF" -> Draws(NoiseSample(f.r), Cols(h[f.sp.X]))
      [] OTHER          -> Draws(NoiseSample(f.r), 1)

\* the values of the filter's internal state
FState(h, f) ==
    CASE f.kind = "KF" ->
           [p |-> h[f.p], pNext |-> h[f.pNext], k |-> h[f.k], inn |-> h[f.inn]]
      [] f.kind \in {"EKF", "IEKF"} ->
           [p |-> h[f.p], pNext |-> h[f.pNext], k |-> h[f.k], inn |-> h[f.inn],
            f |-> h[f.f], h |-> h[f.h]]
      [] f.kind = "UKF" ->
           [p |-> h[f.p], pNext |-> h[f.pNext], k |-> h[f.k], inn |-> h[f.inn],
            spX |-> h[f.sp.X], spCov |-> h[f.sp.Cov],
            x |-> h[f.spNext.x], xMean |-> h[f.spNext.xMean]]
      [] f.kind = "BF" ->
           [w |-> h[f.w], x |-> h[f.x], y |-> h[f.y], inn |-> h[f.inn]]

-----------------------------------------------------------------------------
(* the caller's side: inputs, and the objects it holds *)

\* the number of calls made on a filter
MaxSteps == 2

\* the number of particles the BF is built with
ParticleCount == 2

\* the number of update iterations the IEKF is built with
Iterations == 2

InitState == <<R(1), R(3)>>

InitCov == <<<<Rat(1, 4), R(0)>>, <<R(0), Rat(1, 4)>>>>

IC == NewInitCond(InitState, InitCov)

UOk == <<R(-1)>>

ZOk == <<Rat(-3, 2)>>

\* input and measurement vectors: of the model's length, and of length 3
UVals == {UOk, ZeroVec(3)}

ZVals == {ZOk, ZeroVec(3)}

NilNoises == [q |-> NilNoise, r |-> NilNoise]

ZeroNoises == [q |-> NewZero(2), r |-> NewZero(1)]

GaussianNoises == [q |-> NewGaussian(InitCov), r |-> NewGaussian(<<<<Rat(1, 4)>>>>)]

NoiseArgs == {NilNoises, ZeroNoises, GaussianNoises}

Kinds == {"KF", "EKF", "IEKF", "UKF"}

\* UKF configurations for which gamma is rational
Configs == {NewConfig(R(1), R(2), R(2)), NewConfig(R(1), R(2), R(4))}

New(kind, h, m, init, q, r, c, n) ==
    CASE kind = "KF"   -> KFNew(h, m, init, q, r)
      [] kind = "EKF"  -> EKFNew(h, m, init, q, r)
      [] kind = "IEKF" -> NewIter(h, m, init, q, r, n)
      [] kind = "UKF"  -> UKFNew(h, m, init, q, r, c)

\* the caller's objects, allocated after the filter's: its state vector x, a
\* vector of the wrong length, a covariance for SetCov and one of the wrong
\* dimension
XBad == cx + 1

CovOk == cx + 2

CovBad == cx + 3

NoArgs == [m |-> NIL]

\* what the caller records of a call: the arguments, the result, and the heap
\* as it was before the call
Call(op, res, x, u, z, qs, rs, est) ==
    [op |-> op, res |-> res, x |-> x, u |-> u, z |-> z, qs |-> qs, rs |-> rs,
     h0 |-> heap, est |-> est, args |-> NoArgs]

NoCall ==
    [op |-> "none", res |-> "ok", x |-> 0, u |-> NIL, z |-> NIL, qs |-> << >>,
     rs |-> << >>, h0 |-> << >>, est |-> NoEst, args |-> NoArgs]

\* an estimate the caller received, with the values it had when returned
Received(h, e) == [e |-> e, val |-> h[e.val], cov |-> h[e.cov]]

\* a value the caller holds: got from an accessor, or made by the caller
Got(h, id, from) == [id |-> id, val |-> h[id], from |-> from]

Returns(op, o, x, u, z, qs, rs) ==
    /\ o.res # "unmodelled"
    /\ heap' = o.h
    /\ ests' = IF o.res = "ok" THEN Append(ests, Received(o.h, o.est)) ELSE ests
    /\ last' = Call(op, o.res, x, u, z, qs, rs, o.est)
    /\ steps' = steps + 1
    /\ UNCHANGED <<flt, cx, gots>>

Running(max) == steps < max /\ last.res # "panic"

\* the heap after a constructor left h: the caller's objects are added
CallerHeap(h) == Alloc(h, <<IC.state, ZeroVec(3), Eye(2), Eye(3)>>)

\* the state after a constructor returned c: the caller holds a filter and
\* its own objects
Constructed(c) ==
    /\ ~c.err
    /\ flt = c.f
    /\ heap = CallerHeap(c.h)
    /\ cx = Len(c.h) + 1
    /\ ests = << >>
    /\ gots = <<Got(CallerHeap(c.h), Len(c.h) + 3, "caller"),
                Got(CallerHeap(c.h), Len(c.h) + 4, "caller")>>
    /\ last = NoCall
    /\ steps = 0

\* a Kalman filter built with rational parameters
Usable(c) == ~c.err /\ (c.f.kind = "UKF" => c.f.gamma # NIL)

InitKalmanOf(K, NA) ==
    \E kind \in K, na \in NA, cfg \in Configs :
        /\ Usable(New(kind, << >>, FallModel, IC, na.q, na.r, cfg, Iterations))
        /\ Constructed(New(kind, << >>, FallModel, IC, na.q, na.r, cfg, Iterations))

InitBFOf(NA, PDF) ==
    \E na \in NA, pdf \in PDF, draw \in WithCovN(IC.cov, ParticleCount) :
        Constructed(BFNew(<< >>, FallModel, IC, na.q, na.r, ParticleCount, pdf, draw))

InitKalman == InitKalmanOf(Kinds, NoiseArgs)

InitBF == InitBFOf(NoiseArgs, {NewUniform, NewKernel})

Init == InitKalman \/ InitBF

Predicts(X, U, max) ==
    /\ Running(max)
    /\ \E x \in X, u \in U, qs \in QDraws(heap, flt) :
          Returns("Predict", Predict(heap, flt, x, u, qs), x, u, NIL, qs, << >>)

Updates(X, U, Z, max) ==
    /\ Running(max)
    /\ \E x \in X, u \in U, z \in Z, rs \in RDraws(heap, flt) :
          Returns("Update", Update(heap, flt, x, u, z, rs), x, u, z, << >>, rs)

Runs(X, U, Z, max) ==
    /\ Running(max)
    /\ \E x \in X, u \in U, z \in Z, qs \in QDraws(heap, flt), rs \in RDraws(heap, flt) :
          Returns("Run", Run(heap, flt, x, u, z, qs, rs), x, u, z, qs, rs)

\* the perturbations Resample draws for the particles picked by indices: none
\* when matrix.Cov returns an error
ResampleDraws(x, indices) ==
    IF indices.err \/ \E c \in 1..Len(indices.val) : indices.val[c] > Cols(x)
    THEN {NotDrawn}
    ELSE IF ~ToSymDense(MatrixCov(Picked(x, indices.val)))
    THEN {NotDrawn}
    ELSE WithCovN(MatrixCov(Picked(x, indices.val)), Cols(x))

\* what Resample was called with, and what the generators returned to it
ResampleArgs(alpha, indices, m) ==
    [m |-> NIL, alpha |-> alpha, indices |-> indices, noise |-> m]

Alphas == {R(0), R(1)}

Resampled(o, args) ==
    /\ o.res # "unmodelled"
    /\ heap' = o.h
    /\ last' = [Call("Resample", o.res, 0, NIL, NIL, << >>, << >>, NoEst)
                 EXCEPT !.args = args]
    /\ steps' = steps + 1
    /\ UNCHANGED <<flt, cx, ests, gots>>

Resamples(max) ==
    /\ Running(max)
    /\ flt.kind = "BF"
    /\ \E alpha \in Alphas, indices \in RouletteDrawN(heap[flt.w], Len(heap[flt.w])) :
         \E m \in ResampleDraws(heap[flt.x], indices) :
            Resampled(Resample(heap, flt, alpha, indices, m),
                      ResampleArgs(alpha, indices, m))

-----------------------------------------------------------------------------
(* calls with arguments of every length *)

DoPredict == Predicts({cx, XBad}, UVals, MaxSteps)

DoUpdate == Updates({cx, XBad}, UVals, ZVals, MaxSteps)

DoRun == Runs({cx, XBad}, UVals, ZVals, MaxSteps)

DoResample == Resamples(MaxSteps)

Next == DoPredict \/ DoUpdate \/ DoRun \/ DoResample

Spec == Init /\ [][Next]_vars

-----------------------------------------------------------------------------
(* the constructors, called with valid and invalid arguments *)

Models == {FallModel, InvalidModel(0, 1), InvalidModel(2, 0), InvalidModel(-1, -1)}

QArgs == {NilNoise, NewNone, NewZero(2), NewZero(3), NewGaussian(InitCov)}

RArgs == {NilNoise, NewNone, NewZero(1), NewZero(2), NewGaussian(<<<<Rat(1, 4)>>>>)}

\* particle counts and iteration counts
Counts == {-1, 0, 2}

NewConfigs ==
    Configs \cup {NewConfig(R(-10), R(2), R(2)), NewConfig(R(1), R(-1), R(2)),
                  NewConfig(R(1), R(2), R(-1))}

NewArgs(m, q, r, p, n, c) == [m |-> m, q |-> q, r |-> r, p |-> p, n |-> n, c |-> c]

NoConfig == NewConfig(R(0), R(0), R(0))

InitNew ==
    /\ flt = NoFilter
    /\ heap = << >>
    /\ cx = 0
    /\ ests = << >>
    /\ gots = << >>
    /\ last = NoCall
    /\ steps = 0

\* the constructor op was called with args and returned c
Built(op, c, args) ==
    /\ flt' = c.f
    /\ heap' = c.h
    /\ last' = [NoCall EXCEPT !.op = op, !.res = IF c.err THEN "err" ELSE "ok",
                              !.args = args]
    /\ steps' = steps + 1
    /\ UNCHANGED <<cx, ests, gots>>

NothingBuilt == last.op = "none"

NewKF ==
    /\ NothingBuilt
    /\ \E m \in Models, q \in QArgs, r \in RArgs :
          Built("KFNew", KFNew(heap, m, IC, q, r), NewArgs(m, q, r, 0, 0, NoConfig))

NewEKF ==
    /\ NothingBuilt
    /\ \E m \in Models, q \in QArgs, r \in RArgs :
          Built("EKFNew", EKFNew(heap, m, IC, q, r), NewArgs(m, q, r, 0, 0, NoConfig))

NewIEKF ==
    /\ NothingBuilt
    /\ \E m \in Models, q \in QArgs, r \in RArgs, n \in Counts :
          Built("NewIter", NewIter(heap, m, IC, q, r, n), NewArgs(m, q, r, 0, n, NoConfig))

NewUKF ==
    /\ NothingBuilt
    /\ \E m \in Models, q \in QArgs, r \in RArgs, c \in NewConfigs :
          Built("UKFNew", UKFNew(heap, m, IC, q, r, c), NewArgs(m, q, r, 0, 0, c))

NewBF ==
    /\ NothingBuilt
    /\ \E m \in Models, q \in QArgs, r \in RArgs, p \in Counts :
         \E draw \in WithCovN(IC.cov, p) :
            Built("BFNew", BFNew(heap, m, IC, q, r, p, NewKernel, draw),
                  NewArgs(m, q, r, p, 0, NoConfig))

NewRTS ==
    /\ NothingBuilt
    /\ \E m \in Models, q \in QArgs :
          Built("RTSNew", RTSNew(heap, m, IC, q), NewArgs(m, q, NilNoise, 0, 0, NoConfig))

NewERTS ==
    /\ NothingBuilt
    /\ \E m \in Models, q \in QArgs :
          Built("ERTSNew", ERTSNew(heap, m, IC, q), NewArgs(m, q, NilNoise, 0, 0, NoConfig))

NextNew == NewKF \/ NewEKF \/ NewIEKF \/ NewUKF \/ NewBF \/ NewRTS \/ NewERTS

SpecNew == InitNew /\ [][NextNew]_vars

-----------------------------------------------------------------------------
(* valid calls, the accessors, and a caller that mutates what it holds *)

\* the number of calls made on a filter and on the values it handed out
MaxOps == 3

\* the accessors whose result is a matrix
MatrixGetters == {"caller", "Cov", "Gain", "Particles", "EstCov"}

\* a vector or a matrix of the same shape with other entries
Scribbled(v, isMatrix) ==
    IF isMatrix
    THEN Dense([i \in 1..Rows(v) |-> Dense([j \in 1..Cols(v) |-> R(7)], Cols(v))], Rows(v))
    ELSE Dense([i \in 1..Len(v) |-> R(7)], Len(v))

\* the caller knows the new value of what it has mutated
Rewritten(gs, id, h) ==
    Dense([i \in 1..Len(gs) |-> IF gs[i].id = id THEN [gs[i] EXCEPT !.val = h[id]] ELSE gs[i]],
          Len(gs))

\* no process noise, and an output noise with an invertible covariance
AccessNoises == [q |-> NewZero(2), r |-> NewGaussian(<<<<Rat(1, 4)>>>>)]

InitAccess ==
    \/ InitKalmanOf(Kinds, {AccessNoises})
    \/ InitBFOf({AccessNoises}, {NewKernel})

AccPredict == Predicts({cx}, {UOk}, MaxOps)

AccUpdate == Updates({cx}, {UOk}, {ZOk}, MaxOps)

AccRun == Runs({cx}, {UOk}, {ZOk}, MaxOps)

AccResample == Resamples(MaxOps)

\* an accessor returned the object ref
Handed(op, ref, arg) ==
    /\ heap' = ref.h
    /\ gots' = Append(gots, Got(ref.h, ref.id, op))
    /\ last' = Call(op, "ok", arg, NIL, NIL, << >>, << >>, NoEst)
    /\ steps' = steps + 1
    /\ UNCHANGED <<flt, cx, ests>>

GetCov == Running(MaxOps) /\ flt.kind \in Kinds /\ Handed("Cov", Cov(heap, flt), 0)

GetGain == Running(MaxOps) /\ flt.kind \in Kinds /\ Handed("Gain", Gain(heap, flt), 0)

GetParticles ==
    Running(MaxOps) /\ flt.kind = "BF" /\ Handed("Particles", Particles(heap, flt), 0)

GetWeights ==
    Running(MaxOps) /\ flt.kind = "BF" /\ Handed("Weights", Weights(heap, flt), 0)

EstVal ==
    /\ Running(MaxOps)
    /\ \E i \in 1..Len(ests) : Handed("Val", BaseVal(heap, ests[i].e), i)

EstCov ==
    /\ Running(MaxOps)
    /\ \E i \in 1..Len(ests) : Handed("EstCov", BaseCov(heap, ests[i].e), i)

\* cov is 0 (nil), or one of the caller's matrices
CovSet(cov, r) ==
    /\ heap' = r.h
    /\ last' = Call("SetCov", IF r.err THEN "err" ELSE "ok", cov, NIL, NIL,
                    << >>, << >>, NoEst)
    /\ steps' = steps + 1
    /\ UNCHANGED <<flt, cx, ests, gots>>

DoSetCov ==
    /\ Running(MaxOps)
    /\ flt.kind \in Kinds
    /\ \E cov \in {0, CovOk, CovBad} : CovSet(cov, SetCov(heap, flt, cov))

\* the caller overwrites the entries of the object id
Mutated(id, h) ==
    /\ heap' = h
    /\ gots' = Rewritten(gots, id, h)
    /\ last' = Call("Scribble", "ok", id, NIL, NIL, << >>, << >>, NoEst)
    /\ steps' = steps + 1
    /\ UNCHANGED <<flt, cx, ests>>

Scribble ==
    /\ Running(MaxOps)
    /\ \/ Mutated(cx, Store(heap, cx, Scribbled(heap[cx], FALSE)))
       \/ \E i \in 1..Len(gots) :
            /\ gots[i].id # CovBad
            /\ Mutated(gots[i].id,
                       Store(heap, gots[i].id,
                             Scribbled(heap[gots[i].id], gots[i].from \in MatrixGetters)))

NextAccess ==
    \/ AccPredict \/ AccUpdate \/ AccRun \/ AccResample
    \/ GetCov \/ GetGain \/ GetParticles \/ GetWeights
    \/ EstVal \/ EstCov \/ DoSetCov \/ Scribble

SpecAccess == InitAccess /\ [][NextAccess]_vars

-----------------------------------------------------------------------------
(* the smoothers, called with sequences of estimates of every length *)

\* the longest sequence of estimates handed to Smooth
MaxLen == 2

\* the number of calls made on a smoother
MaxSmooths == 1

\* the estimates the caller holds, allocated after the smoother's objects: the
\* initial estimate, one of zero covariance, and one of three states
EstValues == <<InitState, InitCov, <<R(0), R(1)>>, ZeroMat(2, 2), ZeroVec(3), Eye(3)>>

EstPool == {[val |-> cx + 2 * k, cov |-> cx + 2 * k + 1] : k \in 0..2}

\* the sequences of length 0..n over the set S
SeqsUpTo(S, n) == UNION {[1..k -> S] : k \in 0..n}

\* a nil slice, or estimates
EstSeqs == {NIL} \cup SeqsUpTo(EstPool, MaxLen)

\* a nil slice, or input vectors: one more than the estimates at most
USeqs == {NIL} \cup SeqsUpTo({UOk}, MaxLen + 1)

\* the noise samples Smooth draws: one for each estimate
SmoothDraws(s, est) ==
    IF est = NIL THEN {<< >>} ELSE [1..Len(est) -> NoiseSample(s.q)]

SmootherNew(kind, h, m, init, q) ==
    IF kind = "RTS" THEN RTSNew(h, m, init, q) ELSE ERTSNew(h, m, init, q)

InitSmooth ==
    \E kind \in {"RTS", "ERTS"}, na \in NoiseArgs :
        With(SmootherNew(kind, << >>, FallModel, IC, na.q), LAMBDA c :
            /\ ~c.err
            /\ flt = c.f
            /\ heap = Alloc(c.h, EstValues)
            /\ cx = Len(c.h) + 1
            /\ ests = << >>
            /\ gots = << >>
            /\ last = NoCall
            /\ steps = 0)

\* the estimates of a sequence returned, with the values they have
ReceivedAll(h, out) == Dense([i \in 1..Len(out) |-> Received(h, out[i])], Len(out))

SmoothArgs(est, out) == [m |-> NIL, est |-> est, out |-> out]

Smoothed(o, est, u, qs) ==
    /\ heap' = o.h
    /\ ests' = IF o.res = "ok" THEN ReceivedAll(o.h, o.est) ELSE << >>
    /\ last' = [Call("Smooth", o.res, 0, u, NIL, qs, << >>, NoEst)
                 EXCEPT !.args = SmoothArgs(est, o.est)]
    /\ steps' = steps + 1
    /\ UNCHANGED <<flt, cx, gots>>

DoSmooth ==
    /\ Running(MaxSmooths)
    /\ \E est \in EstSeqs, u \in USeqs :
          \E qs \in SmoothDraws(flt, est) :
             Smoothed(Smooth(heap, flt, est, u, qs), est, u, qs)

NextSmooth == DoSmooth

SpecSmooth == InitSmooth /\ [][NextSmooth]_vars

-----------------------------------------------------------------------------
(* rand.RouletteDrawN, called with weight vectors of every length *)

\* the longest weight vector, and the largest number of indices asked for
MaxWeights == 3

MaxDrawn == 2

WeightValues == {R(0), Rat(1, 2), R(1)}

\* nil or empty, or non-negative weights
WeightVecs == SeqsUpTo(WeightValues, MaxWeights)

DrawArgs(p, n, indices) == [m |-> NIL, p |-> p, n |-> n, indices |-> indices]

InitDraw ==
    /\ flt = NoFilter
    /\ heap = << >>
    /\ cx = 0
    /\ ests = << >>
    /\ gots = << >>
    /\ last = NoCall
    /\ steps = 0

DoRouletteDrawN ==
    \E p \in WeightVecs, n \in 0..MaxDrawn :
        \E d \in RouletteDrawN(p, n) :
            /\ last' = [Call("RouletteDrawN", IF d.err THEN "err" ELSE "ok", 0, NIL, NIL,
                              << >>, << >>, NoEst)
                         EXCEPT !.args = DrawArgs(p, n, d.val)]
            /\ UNCHANGED <<flt, heap, cx, ests, gots, steps>>

NextDraw == DoRouletteDrawN

SpecDraw == InitDraw /\ [][NextDraw]_vars

-----------------------------------------------------------------------------
(* the filters on a model that returns errors for some states *)

\* the model refuses states whose first entry is above the limit: the caller's
\* state is at the first limit and below the second
Limits == {R(1), R(2)}

InitGuarded ==
    \E limit \in Limits, na \in {ZeroNoises, GaussianNoises} :
        \/ \E kind \in Kinds, cfg \in Configs :
              /\ Usable(New(kind, << >>, GuardedModel(limit), IC, na.q, na.r, cfg, Iterations))
              /\ Constructed(New(kind, << >>, GuardedModel(limit), IC, na.q, na.r, cfg,
                                 Iterations))
        \/ \E draw \in WithCovN(IC.cov, ParticleCount) :
              Constructed(BFNew(<< >>, GuardedModel(limit), IC, na.q, na.r, ParticleCount,
                                NewUniform, draw))

NextGuarded == DoPredict \/ DoUpdate \/ DoRun

SpecGuarded == InitGuarded /\ [][NextGuarded]_vars

-----------------------------------------------------------------------------
(* fd.Jacobian with Concurrent: true: workers evaluate the EKF's callbacks *)

\* the number of goroutines evaluating the callback
NumWorkers == 2

Workers == 1..NumWorkers

\* each worker's own buffers, allocated after the caller's objects: xcopy, the
\* point handed to the callback (xNow), and y, the slice the callback writes
\* (every worker handed the buffer of the first one)
XCopyShared(w) == cx + 4

XCopy(w) == cx + 2 + 2 * w

YBuf(w) == cx + 3 + 2 * w

\* the matrix the Jacobian is written to: k.f or k.h
JacDst(fn) == IF fn = "FJacFn" THEN flt.f ELSE flt.h

Idle == [pc |-> "idle", job |-> [j |-> 0, k |-> 0]]

JacArgs(fn, jobs, workers, overlapped) ==
    [m |-> NIL, fn |-> fn, jobs |-> jobs, workers |-> workers, overlapped |-> overlapped]

\* the heap when the workers start: dst is zeroed, the buffers are allocated
JacHeap(h, dst, nx, rows) ==
    Alloc(Store(h, dst, ZeroMat(rows, nx)),
          Dense([i \in 1..(2 * NumWorkers) |->
                    IF i % 2 = 1 THEN ZeroVec(nx) ELSE ZeroVec(rows)], 2 * NumWorkers))

\* an EKF in the middle of Predict (FJacFn) or Update (HJacFn): the Jacobian
\* is being computed at the caller's state
InitJac ==
    \E fn \in {"FJacFn", "HJacFn"}, u \in {UOk, NIL}, na \in {ZeroNoises, GaussianNoises} :
        With(EKFNew(<< >>, FallModel, IC, na.q, na.r), LAMBDA c :
            /\ flt = c.f
            /\ cx = Len(c.h) + 1
            /\ heap = JacHeap(CallerHeap(c.h), JacDst(fn), Len(IC.state),
                              Rows(c.h[JacDst(fn)]))
            /\ ests = << >>
            /\ gots = << >>
            /\ last = [Call("Jacobian", "running", cx, u, NIL, << >>, << >>, NoEst)
                        EXCEPT !.args = JacArgs(fn, JacJobs(Len(IC.state)),
                                                Dense([w \in Workers |-> Idle], NumWorkers),
                                                FALSE)]
            /\ steps = 0)

JacRunning == last.op = "Jacobian" /\ last.res = "running"

Worker(w) == last.args.workers[w]

\* for job := range jobs: copy(xcopy, x); xcopy[job.j] += job.pt.Loc * step
JacTake(w) ==
    /\ JacRunning
    /\ Worker(w).pc = "idle"
    /\ last.args.jobs # << >>
    /\ heap' = Store(heap, XCopy(w), JobPoint(last.h0[last.x], Head(last.args.jobs)))
    /\ last' = [last EXCEPT !.args.jobs = Tail(@),
                            !.args.workers[w] = [pc |-> "taken", job |-> Head(last.args.jobs)],
                            !.args.overlapped =
                                @ \/ \E v \in Workers : v # w /\ Worker(v).pc # "idle"]
    /\ UNCHANGED <<flt, cx, ests, gots, steps>>

\* f(y, xcopy): the callback wraps xcopy in a vector, calls the model with the
\* captured u and a sample of the zero noise, and writes its result to y
JacCall(w) ==
    /\ JacRunning
    /\ Worker(w).pc = "taken"
    /\ heap' = Store(heap, YBuf(w), JacFnAt(last.args.fn, flt.m, last.u, heap[XCopy(w)]))
    /\ last' = [last EXCEPT !.args.workers[w].pc = "called"]
    /\ UNCHANGED <<flt, cx, ests, gots, steps>>

\* under the mutex of column job.j: col.AddScaledVec(&col, job.pt.Coeff, yVec)
JacStore(w) ==
    /\ JacRunning
    /\ Worker(w).pc = "called"
    /\ heap' = Store(heap, JacDst(last.args.fn),
                     AddScaledCol(heap[JacDst(last.args.fn)], Worker(w).job.j,
                                  Stencil[Worker(w).job.k].coeff, heap[YBuf(w)]))
    /\ last' = [last EXCEPT !.args.workers[w] = Idle]
    /\ UNCHANGED <<flt, cx, ests, gots, steps>>

\* close(jobs); wg.Wait(); dst.Scale(1/step, dst)
JacDone ==
    /\ JacRunning
    /\ last.args.jobs = << >>
    /\ \A w \in Workers : Worker(w).pc = "idle"
    /\ heap' = Store(heap, JacDst(last.args.fn),
                     MScale(RInv(JacStep), heap[JacDst(last.args.fn)]))
    /\ last' = [last EXCEPT !.res = "ok"]
    /\ UNCHANGED <<flt, cx, ests, gots, steps>>

DoJacTake == \E w \in Workers : JacTake(w)

DoJacCall == \E w \in Workers : JacCall(w)

DoJacStore == \E w \in Workers : JacStore(w)

NextJac == DoJacTake \/ DoJacCall \/ DoJacStore \/ JacDone

SpecJac == InitJac /\ [][NextJac]_vars

-----------------------------------------------------------------------------
(* the Kalman filters' covariance over Predict, Update and SetCov *)

\* no process noise or a Gaussian one, and an output noise with an invertible
\* covariance
CovNoises ==
    {[q |-> NilNoise, r |-> NewGaussian(<<<<Rat(1, 4)>>>>)],
     [q |-> NewGaussian(InitCov), r |-> NewGaussian(<<<<Rat(1, 4)>>>>)]}

InitCovariance == InitKalmanOf({"KF", "EKF", "IEKF"}, CovNoises)

NextCovariance == AccPredict \/ AccUpdate \/ DoSetCov

SpecCovariance == InitCovariance /\ [][NextCovariance]_vars

-----------------------------------------------------------------------------
(* the BF resampled, after inputs that make its particles diverge as well *)

\* the number of calls made on the filter
MaxResamples == 3

\* an input that has overflowed
UDiverged == <<Inf>>

InitResample == InitDraw \/ InitBFOf(NoiseArgs, {NewUniform, NewKernel})

ResPredict == flt.kind = "BF" /\ Predicts({cx}, {UOk, UDiverged}, MaxResamples)

ResUpdate == flt.kind = "BF" /\ Updates({cx}, {UOk}, {ZOk}, MaxResamples)

ResResample == Resamples(MaxResamples)

ResDraw == flt.kind = "none" /\ DoRouletteDrawN

NextResample == ResPredict \/ ResUpdate \/ ResResample \/ ResDraw

SpecResample == InitResample /\ [][NextResample]_vars

-----------------------------------------------------------------------------
(* UKF.GenSigmaPoints, for diagonal covariances and every choice of noises *)

\* the number of calls made on the filter
MaxSigmaOps == 2

\* diagonal initial covariances: equal entries, ascending, descending
SigmaCovs ==
    {InitCov,
     <<<<Rat(1, 4), R(0)>>, <<R(0), R(1)>>>>,
     <<<<R(1), R(0)>>, <<R(0), Rat(1, 4)>>>>}

SigmaQ == {NilNoise, NewZero(2), NewGaussian(InitCov), NewGaussian(Eye(2))}

SigmaR == {NilNoise, NewZero(1), NewGaussian(<<<<Rat(1, 4)>>>>), NewGaussian(<<<<R(1)>>>>)}

\* configurations with a rational gamma for a sigma point of 2, 3, 4 and 5
\* entries
SigmaConfigs == {NewConfig(R(1), R(2), R(k)) : k \in {0, 1, 2, 4}}

InitSigma ==
    \E cov \in SigmaCovs, q \in SigmaQ, r \in SigmaR, cfg \in SigmaConfigs :
        /\ Usable(UKFNew(<< >>, FallModel, NewInitCond(InitState, cov), q, r, cfg))
        /\ Constructed(UKFNew(<< >>, FallModel, NewInitCond(InitState, cov), q, r, cfg))

SigmaArgs(sp) == [m |-> NIL, X |-> sp.X, Cov |-> sp.Cov]

\* GenSigmaPoints returned sp: the filter is left as it was
Generated(x, sp) ==
    /\ sp.ok
    /\ last' = [Call("GenSigmaPoints", "ok", x, NIL, NIL, << >>, << >>, NoEst)
                 EXCEPT !.args = SigmaArgs(sp)]
    /\ steps' = steps + 1
    /\ UNCHANGED <<flt, heap, cx, ests, gots>>

DoGenSigmaPoints ==
    /\ Running(MaxSigmaOps)
    /\ Generated(cx, GenSigmaPoints(heap, flt, heap[cx]))

SigPredict == Predicts({cx}, {UOk}, MaxSigmaOps)

SigUpdate == Updates({cx}, {UOk}, {ZOk}, MaxSigmaOps)

SigSetCov ==
    /\ Running(MaxSigmaOps)
    /\ CovSet(CovOk, SetCov(heap, flt, CovOk))

NextSigma == DoGenSigmaPoints \/ SigPredict \/ SigUpdate \/ SigSetCov

SpecSigma == InitSigma /\ [][NextSigma]_vars

-----------------------------------------------------------------------------
(* the EKF and the IEKF on a linear and on a nonlinear observation model *)

\* the number of calls made on the filter
MaxIterSteps == 3

\* the numbers of update iterations the IEKF is built with
IterCounts == {1, 2, 3}

IterModels == {FallModel, CurvedModel(R(1))}

\* the numbers of iterations made on the nonlinear model (the entries of x
\* stay within the integers of the checker)
CurvedCounts == {1, 2}

\* no noise at all, noises that are zero, an output noise alone, and both noises
IterNoises == {NilNoises, ZeroNoises, AccessNoises, GaussianNoises}

InitIter ==
    \E kind \in {"EKF", "IEKF"}, m \in IterModels, na \in IterNoises, n \in IterCounts :
        /\ m.curve # NIL => n \in CurvedCounts
        /\ Constructed(New(kind, << >>, m, IC, na.q, na.r, NoConfig, n))

IterPredict == Predicts({cx}, {UOk}, MaxIterSteps)

\* every entry of x is a whole number
Whole(x) == \A i \in 1..Len(x) : x[i][2] = 1

\* on the nonlinear model the corrections start from a state of whole entries
IterUpdate ==
    /\ flt.m.curve # NIL => Whole(heap[cx])
    /\ Updates({cx}, {UOk}, {ZOk}, MaxIterSteps)

NextIter == IterPredict \/ IterUpdate

SpecIter == InitIter /\ [][NextIter]_vars

-----------------------------------------------------------------------------
(* properties of calls with arguments of every length (Spec) *)

FilterCall == last.op \in {"Predict", "Update", "Run"}

WrongInput == FilterCall /\ Len(last.u) # SystemDims(flt.m).nu

WrongMeasurement == last.op \in {"Update", "Run"} /\ Len(last.z) # SystemDims(flt.m).ny

ErrorReturned == last.res = "err" /\ last.est = NoEst

\* C1: Update with a measurement whose length is not ny returns an error and
\* no estimate, whatever x and u are; Predict, Update and Run with an input
\* whose length is not nu return an error and no estimate, whatever x and z are
C1_DimensionErrors ==
    /\ (last.op = "Update" /\ WrongMeasurement => ErrorReturned)
    /\ (WrongInput => ErrorReturned)

\* an Update with a measurement of the wrong length, x of the wrong length and
\* a valid input was refused
C1_Witness ==
    /\ last.op = "Update"
    /\ WrongMeasurement
    /\ ~WrongInput
    /\ last.x = XBad
    /\ ErrorReturned

\* C2: when Predict, Update or Run returns a dimension error, the filter's
\* internal state is what it was before the call
C2_StateKeptOnDimensionError ==
    (last.res = "err" /\ (WrongInput \/ WrongMeasurement))
        => FState(heap, flt) = FState(last.h0, flt)

Weight(i) == heap[flt.w][i]

\* C3: after every successful BF Update and Resample the weights sum to 1 and
\* none is negative
C3_WeightsNormalized ==
    (flt.kind = "BF" /\ last.op \in {"Update", "Resample"} /\ last.res = "ok")
        => /\ RSum(heap[flt.w]) = R(1)
           /\ \A i \in 1..Len(heap[flt.w]) :
                 IsFinite(Weight(i)) /\ ~RGt(R(0), Weight(i))

\* the outcome o of a call is the one the caller has seen: the same result,
\* the same estimate and the same internal state of the filter
SameOutcome(o) ==
    /\ last.res = o.res
    /\ FState(heap, flt) = FState(o.h, flt)
    /\ o.res = "ok" => /\ heap[last.est.val] = o.h[o.est.val]
                       /\ heap[last.est.cov] = o.h[o.est.cov]

\* Predict(x, u), then Update(pred.Val(), u, z) unless Predict failed
PredictThenUpdate(h, f, x, u, z, qs, rs) ==
    With(Predict(h, f, x, u, qs), LAMBDA pred :
        IF pred.res # "ok" THEN pred
        ELSE With(BaseVal(pred.h, pred.est), LAMBDA v :
                 Update(v.h, f, v.id, u, z, rs)))

\* C6: Run(x, u, z) returns the estimate, and leaves the filter in the state,
\* of Predict(x, u) followed by Update(pred.Val(), u, z) from the same
\* starting state with the same noise samples; when Predict fails Run returns
\* its error and the state Predict left
C6_RunIsPredictThenUpdate ==
    last.op = "Run"
        => SameOutcome(PredictThenUpdate(last.h0, flt, last.x, last.u, last.z,
                                         last.qs, last.rs))

\* a Run that succeeded and changed the filter's covariance
C6_Witness ==
    /\ last.op = "Run"
    /\ last.res = "ok"
    /\ FState(heap, flt) # FState(last.h0, flt)

NoiseFree(nz) == nz.kind \in {"None", "Zero"}

-----------------------------------------------------------------------------
(* properties of the constructors (SpecNew) *)

Constructor == last.op \in {"KFNew", "EKFNew", "NewIter", "UKFNew", "BFNew", "RTSNew", "ERTSNew"}

\* the dimension of a supplied noise differs from n
Mismatch(nz, n) == nz.kind # "nil" /\ SymmetricDim(NoiseCov(nz)) # n

InvalidArgs(op, a) ==
    \/ SystemDims(a.m).nx <= 0
    \/ SystemDims(a.m).ny <= 0
    \/ Mismatch(a.q, SystemDims(a.m).nx)
    \/ Mismatch(a.r, SystemDims(a.m).ny)
    \/ (op = "BFNew" /\ a.p <= 0)
    \/ (op = "NewIter" /\ a.n <= 0)

\* the noise a constructor puts in the place of a nil argument
DefaultNoise(op, n) == IF op = "BFNew" THEN NewZero(n) ELSE NewNone

NoiseKept(op, arg, n, stored) ==
    stored = IF arg.kind = "nil" THEN DefaultNoise(op, n) ELSE arg

NegativeConfig(c) == RGt(R(0), c.Alpha) \/ RGt(R(0), c.Beta) \/ RGt(R(0), c.Kappa)

\* C5: UKF New returns an error and no filter when alpha, beta or kappa is
\* negative
C5_NegativeConfigRefused ==
    (last.op = "UKFNew" /\ NegativeConfig(last.args.c))
        => last.res = "err" /\ flt = NoFilter

-----------------------------------------------------------------------------
(* properties of the estimates and of the accessors (SpecAccess) *)

\* C7: after every successful Update of KF, EKF, IEKF or UKF the covariance
\* in the estimate and the one Cov() returns are symmetric
C7_CovarianceSymmetric ==
    (last.op = "Update" /\ last.res = "ok" /\ flt.kind \in Kinds)
        => /\ IsSymmetric(heap[last.est.cov])
           /\ IsSymmetric(Cov(heap, flt).h[Cov(heap, flt).id])

\* an Update stored a covariance with entries off the diagonal
C7_Witness ==
    /\ last.op = "Update"
    /\ last.res = "ok"
    /\ flt.kind \in Kinds
    /\ heap[flt.p][1][2] # R(0)
    /\ heap[last.est.cov][1][2] # R(0)

\* the i-th estimate the caller received holds the values it was returned with
Unchanged(i) ==
    /\ heap[ests[i].e.val] = ests[i].val
    /\ heap[ests[i].e.cov] = ests[i].cov

LastGot == gots[Len(gots)]

BadCov == last.x = 0 \/ Rows(last.h0[last.x]) # Rows(last.h0[flt.p])

\* C9: what an accessor returned is changed by no later call on the filter;
\* mutating it, or the matrix given to SetCov, does not change the filter;
\* SetCov stores the values of its argument, and refuses nil and a matrix of
\* another dimension without changing the covariance
C9_AccessorsCopy ==
    /\ \A i \in 1..Len(gots) : heap[gots[i].id] = gots[i].val
    /\ last.op = "Scribble" => FState(heap, flt) = FState(last.h0, flt)
    /\ last.op = "SetCov" =>
          IF BadCov
          THEN last.res = "err" /\ FState(heap, flt) = FState(last.h0, flt)
          ELSE last.res = "ok" /\ heap[flt.p] = last.h0[last.x]

\* the caller has mutated a matrix it got from Cov()
C9_Witness ==
    /\ last.op = "Scribble"
    /\ \E i \in 1..Len(gots) : gots[i].id = last.x /\ gots[i].from = "Cov"
    /\ heap[last.x] # heap[flt.p]

-----------------------------------------------------------------------------
(* properties of the smoothers (SpecSmooth) *)

SmoothCall == last.op = "Smooth"

NilEstimates == last.args.est = NIL

WrongInputCount ==
    last.args.est # NIL /\ last.u # NIL /\ Len(last.u) # Len(last.args.est)

\* every estimate handed over has the model's state length and a predicted
\* covariance that can be inverted
Smoothable ==
    /\ last.args.est # NIL
    /\ \A i \in 1..Len(last.args.est) :
          /\ Len(last.h0[last.args.est[i].val]) = SystemDims(flt.m).nx
          /\ ~Inverse(PredictCov(flt.m.A, last.h0[last.args.est[i].cov], flt.q)).err

\* C11: Smooth returns an error and a nil result when the estimates are nil, or
\* when the inputs are not nil and their number differs from the number of
\* estimates; nil inputs are accepted for every sequence of estimates, so that
\* estimates that can be smoothed are smoothed without any input
C11_SmoothArgumentErrors ==
    SmoothCall =>
        /\ NilEstimates \/ WrongInputCount
              => last.res = "err" /\ last.args.out = NIL
        /\ last.u = NIL /\ Smoothable
              => last.res = "ok" /\ Len(last.args.out) = Len(last.args.est)

\* inputs of the wrong number were refused for estimates that can be smoothed
C11_Witness ==
    /\ SmoothCall
    /\ WrongInputCount
    /\ Smoothable
    /\ Len(last.args.est) = MaxLen
    /\ last.res = "err"

\* the estimate the i-th element is smoothed towards: the smoothed estimate of
\* the next element, and the initial condition for the last element
Anchor(i) ==
    IF i = Len(ests) THEN [val |-> flt.start.state, cov |-> flt.start.cov]
    ELSE [val |-> ests[i + 1].val, cov |-> ests[i + 1].cov]

\* the i-th estimate and input handed to Smooth
EstIn(i) ==
    [val |-> last.h0[last.args.est[i].val], cov |-> last.h0[last.args.est[i].cov]]

InputIn(i) == IF last.u = NIL THEN NIL ELSE last.u[i]

\* the one-step prediction from the i-th estimate
PredictedVal(i) == Propagate(flt.m, EstIn(i).val, InputIn(i), last.qs[i]).val

PredictedCov(i) == PredictCov(flt.m.A, EstIn(i).cov, flt.q)

GainAt(i) == SmoothGain(flt.m.A, EstIn(i).cov, Inverse(PredictedCov(i)).val)

\* the RTS recursion for element i towards the anchor a
SmoothedTowards(i, a) ==
    [val |-> VAdd(EstIn(i).val, MVec(GainAt(i), VSub(a.val, PredictedVal(i)))),
     cov |-> MAdd(EstIn(i).cov,
                  MMul(MMul(GainAt(i), MSub(a.cov, PredictedCov(i))), MT(GainAt(i))))]

\* C12: a successful Smooth returns as many estimates as it was given; the i-th
\* is computed from the i-th estimate, the i-th input and the smoothed
\* estimate of element i + 1, the last one from the initial condition
C12_BackwardRecursion ==
    SmoothCall /\ last.res = "ok" =>
        /\ Len(last.args.out) = Len(last.args.est)
        /\ Len(ests) = Len(last.args.est)
        /\ \A i \in 1..Len(ests) :
              /\ ests[i].val = SmoothedTowards(i, Anchor(i)).val
              /\ ests[i].cov = SmoothedTowards(i, Anchor(i)).cov

\* two estimates were smoothed with inputs, the first one towards a smoothed
\* estimate that is not the initial condition
C12_Witness ==
    /\ SmoothCall
    /\ last.res = "ok"
    /\ last.u # NIL
    /\ Len(ests) = 2
    /\ ests[2].val # flt.start.state
    /\ ests[1].val # EstIn(1).val
    /\ ests[1].cov # EstIn(1).cov

\* C13: with a zero or None process noise, Smooth of a single estimate e0
\* returns one estimate whose state and covariance are those of e0, whatever
\* the initial condition and the input, when the inversion succeeds
C13_SingleEstimateKept ==
    /\ SmoothCall
    /\ last.res = "ok"
    /\ Len(last.args.est) = 1
    /\ flt.q.kind \in {"None", "Zero"}
    => /\ Len(ests) = 1
       /\ ests[1].val = EstIn(1).val
       /\ ests[1].cov = EstIn(1).cov

-----------------------------------------------------------------------------
(* properties of rand.RouletteDrawN (SpecDraw) *)

\* C14: for a non-empty vector of non-negative weights, all zero included,
\* RouletteDrawN returns n indices, each of them the position of an entry of p
\* (a particle column for Resample); for a nil or empty p it returns an error
\* and nil indices
C14_IndicesInRange ==
    last.op = "RouletteDrawN" =>
        IF Len(last.args.p) = 0
        THEN last.res = "err" /\ last.args.indices = << >>
        ELSE /\ last.res = "ok"
             /\ Len(last.args.indices) = last.args.n
             /\ \A c \in 1..Len(last.args.indices) :
                   last.args.indices[c] \in 1..Len(last.args.p)

-----------------------------------------------------------------------------
(* properties of the filters on a model that returns errors (SpecGuarded) *)

\* the model returns an error for the state handed to the call (the Update of
\* the UKF and of the BF observes the stored sigma points and particles, not x)
FailsAtState ==
    \/ last.op \in {"Predict", "Run"}
          /\ Propagate(flt.m, last.h0[last.x], last.u, last.qs[1]).err
    \/ last.op = "Update"
          /\ flt.kind \in {"KF", "EKF", "IEKF"}
          /\ Len(last.z) = SystemDims(flt.m).ny
          /\ Observe(flt.m, last.h0[last.x], last.u, last.rs[1]).err

\* the model accepts the state and returns an error for a point of the
\* finite differences around it
FailsAtJacobian ==
    /\ flt.kind \in {"EKF", "IEKF"}
    /\ ~FailsAtState
    /\ \/ last.op \in {"Predict", "Run"}
             /\ JacobianPanics("FJacFn", flt.m, last.u, last.h0[last.x])
       \/ last.op = "Update"
             /\ Len(last.z) = SystemDims(flt.m).ny
             /\ JacobianPanics("HJacFn", flt.m, last.u, last.h0[last.x])

\* C15: when the model returns an error during Predict, Update or Run, for the
\* state or for a point evaluated while computing a Jacobian, the call
\* returns an error and does not panic
C15_ModelErrorsReturned ==
    FilterCall /\ (FailsAtState \/ FailsAtJacobian) => last.res = "err"

-----------------------------------------------------------------------------
(* properties of the concurrent Jacobian (SpecJac) *)

JacPoint(w) == JobPoint(last.h0[last.x], Worker(w).job)

\* C16: the callbacks invoked concurrently share no mutable state: whatever the
\* other workers do, a worker's point is the one of its own job and its
\* output is the callback's value at that point, the captured u and the
\* caller's x are only read, and for every interleaving the Jacobian equals
\* the one evaluated sequentially
C16_JacobianInterleavings ==
    last.op = "Jacobian" =>
        /\ \A w \in Workers :
              /\ Worker(w).pc \in {"taken", "called"} => heap[XCopy(w)] = JacPoint(w)
              /\ Worker(w).pc = "called" =>
                    heap[YBuf(w)] = JacFnAt(last.args.fn, flt.m, last.u, JacPoint(w))
        /\ heap[last.x] = last.h0[last.x]
        /\ last.res = "ok" =>
              heap[JacDst(last.args.fn)] =
                  Jacobian(last.args.fn, flt.m, last.u, last.h0[last.x],
                           Rows(heap[JacDst(last.args.fn)]))

\* the Jacobian is complete, and two workers were at work at the same time
C16_Witness ==
    /\ last.op = "Jacobian"
    /\ last.res = "ok"
    /\ last.args.overlapped
    /\ last.u # NIL
    /\ heap[JacDst(last.args.fn)] # ZeroMat(Rows(heap[JacDst(last.args.fn)]), 2)

-----------------------------------------------------------------------------
(* properties of the Kalman filters' covariances (Spec) *)

Linear == flt.kind \in {"KF", "EKF", "IEKF"}

\* an Update of KF, EKF or IEKF with arguments of the right lengths
UpdateCall ==
    /\ last.op = "Update"
    /\ Linear
    /\ ~WrongInput
    /\ ~WrongMeasurement
    /\ Len(last.h0[last.x]) = SystemDims(flt.m).nx

\* K = P' C' (C P' C' + R)^-1 from the predicted covariance before the call
GainBefore == KalmanGain(last.h0[flt.pNext], flt.m.C, flt.r)

\* I - K C
Residual == MSub(Eye(SystemDims(flt.m).nx), MMul(GainBefore.gain, flt.m.C))

\* (I - K C) P' (I - K C)' + K R K', without the last term for a None noise
JosephCov ==
    IF IsNone(flt.r) THEN Sandwich(Residual, last.h0[flt.pNext])
    ELSE MAdd(Sandwich(Residual, last.h0[flt.pNext]),
              MMul(MMul(GainBefore.gain, NoiseCov(flt.r)), MT(GainBefore.gain)))

-----------------------------------------------------------------------------
(* properties of the predicted covariance (SpecCovariance) *)

\* A P A' + Q for the covariance P, without Q for a None process noise
Predicted(P) ==
    IF IsNone(flt.q) THEN Sandwich(flt.m.A, P)
    ELSE MAdd(Sandwich(flt.m.A, P), NoiseCov(flt.q))

\* C18: a successful Predict of KF or EKF sets the predicted covariance to
\* A P A' + Q (F = A for the EKF on this model), Q being omitted for a None
\* process noise, and returns the propagated state with this covariance; P is
\* the stored covariance, which only a successful Update or SetCov changes
C18_PredictedCovariance ==
    [][/\ last'.op = "Predict" /\ last'.res = "ok" =>
             /\ heap'[flt.pNext] = Predicted(heap[flt.p])
             /\ heap'[last'.est.cov] = Predicted(heap[flt.p])
             /\ heap'[last'.est.val] =
                    Propagate(flt.m, heap[last'.x], last'.u, last'.qs[1]).val
       /\ heap'[flt.p] # heap[flt.p] =>
             last'.op \in {"Update", "SetCov"} /\ last'.res = "ok"]_vars

\* a Predict with a Gaussian process noise used a covariance that a SetCov or
\* an Update had stored
C18_Witness ==
    /\ last.op = "Predict"
    /\ last.res = "ok"
    /\ flt.q.kind = "Gaussian"
    /\ last.h0[flt.p] # InitCov
    /\ heap[flt.pNext] = Predicted(last.h0[flt.p])

-----------------------------------------------------------------------------
(* properties of the UKF's Update (SpecAccess) *)

\* the outputs observed for the sigma points stored in the heap h, with the
\* input and the noise samples of the call c
SigmaOut(h, c) ==
    ColumnsOf(ObserveColumns(flt, h[flt.spNext.x], c.u, c.rs, Cols(h[flt.spNext.x])),
              SystemDims(flt.m).ny, Cols(h[flt.spNext.x]))

\* the state xMean + K (z - yMean) and the covariance P_pred - K Pyy K', with
\* K = Pxy Pyy^-1, for the outputs y of the sigma points and their mean
CorrectedBy(h, z, y, yMean, pyy, pxy) ==
    With(MMul(pxy, Inverse(pyy).val), LAMBDA K :
        [val |-> VAdd(h[flt.spNext.xMean], MVec(K, VSub(z, yMean))),
         cov |-> MSub(h[flt.pNext], MMul(MMul(K, pyy), MT(K)))])

UKFCorrected(h, c) ==
    With(SigmaOut(h, c), LAMBDA y :
    With(WeightedMean(flt, y, SystemDims(flt.m).ny, Cols(y)), LAMBDA yMean :
        CorrectedBy(h, c.z, y, yMean,
                    WeightedCov(flt, y, yMean, y, yMean, Cols(y)),
                    WeightedCov(flt, h[flt.spNext.x], h[flt.spNext.xMean], y, yMean,
                                Cols(y)))))

\* what the call recorded returned and stored
UKFResult(h, c) == [val |-> h[c.est.val], cov |-> h[flt.p]]

\* C19: a successful Update of the UKF returns xMean + K (z - yMean), xMean
\* being the weighted mean of the sigma points stored by the last successful
\* Predict and K = Pxy Pyy^-1, whatever the entries of x are, and the stored
\* covariance becomes P_pred - K Pyy K'
C19_UKFUpdate ==
    [][flt.kind = "UKF" =>
          /\ last'.op = "Update" /\ last'.res = "ok" =>
                UKFResult(heap', last') = UKFCorrected(heap, last')
          /\ heap'[flt.spNext.xMean] # heap[flt.spNext.xMean] =>
                last'.op \in {"Predict", "Run"}]_vars

\* an Update of the UKF succeeded on a state vector the caller had overwritten
\* after the Predict
C19_Witness ==
    /\ flt.kind = "UKF"
    /\ last.op = "Update"
    /\ last.res = "ok"
    /\ last.h0[last.x] = Scribbled(InitState, FALSE)
    /\ last.h0[flt.spNext.xMean] # ZeroVec(2)
    /\ heap[last.est.val] # last.h0[last.x]

-----------------------------------------------------------------------------
(* properties of the BF's Update (Spec) *)

\* L_i = exp(logPDF(z - y_i)) for the particles of the heap h and the call c
ParticleLikelihood(h, c, i) ==
    Likelihood(flt.errPDF, VSub(c.z, Observe(flt.m, Col(h[flt.x], i), c.u, c.rs[i]).val))

\* w_i L_i for every particle
Unnormalized(h, c) ==
    Dense([i \in 1..Len(h[flt.w]) |-> RMul(h[flt.w][i], ParticleLikelihood(h, c, i))],
          Len(h[flt.w]))

\* w_i L_i / sum_j (w_j L_j)
Bayes(raw) == Dense([i \in 1..Len(raw) |-> RDiv(raw[i], RSum(raw))], Len(raw))

\* sum_i w_i x_i
MeanUnder(w, X) ==
    Dense([r \in 1..Rows(X) |->
              RSum(Dense([i \in 1..Len(w) |-> RMul(w[i], X[r][i])], Len(w)))], Rows(X))

\* C20: a successful Update of the BF replaces each weight w_i by
\* w_i L_i / sum_j (w_j L_j), so that the weights accumulate over successive
\* Updates until a Resample, returns the mean of the particles under the new
\* weights whatever x is, and leaves the particles unchanged
C20_BFUpdate ==
    [][flt.kind = "BF" =>
          /\ last'.op = "Update" /\ last'.res = "ok" =>
                /\ heap'[flt.w] = Bayes(Unnormalized(heap, last'))
                /\ heap'[last'.est.val] = MeanUnder(heap'[flt.w], heap[flt.x])
                /\ heap'[flt.x] = heap[flt.x]
          /\ heap'[flt.w] # heap[flt.w] =>
                last'.op \in {"Update", "Run", "Resample"}]_vars

\* a second Update started from weights that were not equal and changed them
C20_Witness ==
    /\ flt.kind = "BF"
    /\ last.op = "Update"
    /\ last.res = "ok"
    /\ steps = 2
    /\ last.h0[flt.w] # EqualWeights(Len(heap[flt.w]))
    /\ \A i \in 1..Len(heap[flt.w]) : IsFinite(heap[flt.w][i])
    /\ heap[flt.w] # last.h0[flt.w]
    /\ Len(last.h0[last.x]) # Rows(heap[flt.x])

-----------------------------------------------------------------------------
(* properties of the BF's Resample (SpecResample) *)

ResampleCall == last.op = "Resample"

\* what Resample added to the picked particles: alpha times the perturbations
Jitter ==
    IF last.args.noise.val = ZeroMat(Rows(heap[flt.x]), Cols(heap[flt.x]))
    THEN last.args.noise.val
    ELSE MScale(last.args.alpha, last.args.noise.val)

\* C21: a successful Resample keeps the number of particles and the state
\* dimension, sets every weight to 1/P, and makes particle c the old particle
\* indices[c] plus the jitter, indices being a result of RouletteDrawN on the
\* weights before the call: the old particle is read from the matrix as it was
\* before the call
C21_ResamplePicks ==
    ResampleCall /\ last.res = "ok" =>
        /\ Rows(heap[flt.x]) = Rows(last.h0[flt.x])
        /\ Cols(heap[flt.x]) = Cols(last.h0[flt.x])
        /\ Len(heap[flt.w]) = Len(last.h0[flt.w])
        /\ \A c \in 1..Len(heap[flt.w]) :
              heap[flt.w][c] = Rat(1, Len(last.h0[flt.w]))
        /\ last.args.indices \in RouletteDrawN(last.h0[flt.w], Len(last.h0[flt.w]))
        /\ \A c \in 1..Cols(heap[flt.x]) : \A i \in 1..Rows(heap[flt.x]) :
              heap[flt.x][i][c] =
                  RAdd(last.h0[flt.x][i][last.args.indices.val[c]], Jitter[i][c])

\* a Resample that picked the second particle first and the first one second,
\* the two being different
C21_Witness ==
    /\ ResampleCall /\ last.res = "ok"
    /\ last.args.indices.val = <<2, 1>>
    /\ Col(last.h0[flt.x], 1) # Col(last.h0[flt.x], 2)

\* C22: when Resample returns an error the particles and the weights are
\* what they were before the call
C22_ResampleErrorKeepsState ==
    ResampleCall /\ last.res = "err" =>
        /\ heap[flt.x] = last.h0[flt.x]
        /\ heap[flt.w] = last.h0[flt.w]

\* non-negative weights with a positive sum
Drawable(p) ==
    /\ Len(p) > 0
    /\ \A i \in 1..Len(p) : p[i] = R(0) \/ RGt(p[i], R(0))
    /\ RGt(RSum(p), R(0))

\* every index is the position of a positive entry of p
PositiveOnly(p, indices) ==
    \A c \in 1..Len(indices) :
        indices[c] \in 1..Len(p) /\ RGt(p[indices[c]], R(0))

\* C28: for non-negative weights with a positive sum RouletteDrawN returns
\* only indices of entries that are positive, and Resample carries over only
\* particles whose weight before the call was positive
C28_ZeroWeightNeverDrawn ==
    /\ last.op = "RouletteDrawN" /\ Drawable(last.args.p) =>
          last.res = "ok" /\ PositiveOnly(last.args.p, last.args.indices)
    /\ ResampleCall /\ Drawable(last.h0[flt.w]) =>
          /\ last.res # "panic"
          /\ PositiveOnly(last.h0[flt.w], last.args.indices.val)
          /\ last.res = "ok" =>
                \A c \in 1..Cols(heap[flt.x]) :
                    \E d \in 1..Cols(heap[flt.x]) :
                        /\ RGt(last.h0[flt.w][d], R(0))
                        /\ Col(heap[flt.x], c) =
                              VAdd(Col(last.h0[flt.x], d), Col(Jitter, c))

\* a Resample of two particles the first of which had weight zero:
\* RouletteDrawN drew both indices from the weights <<0, 1>>
C28_Witness ==
    /\ ResampleCall /\ last.res = "ok"
    /\ Drawable(last.h0[flt.w])
    /\ last.h0[flt.w][1] = R(0)
    /\ Len(last.args.indices.val) = ParticleCount

-----------------------------------------------------------------------------
(* properties of UKF.GenSigmaPoints (SpecSigma) *)

SigmaCall == last.op = "GenSigmaPoints"

\* the rows a noise adds to a sigma point: none for a nil noise
NoiseRows(nz, n) == IF nz.kind = "None" THEN 0 ELSE n

\* nx + dim(Q) + dim(R) over the noises that are present
SpDim ==
    Len(heap[last.x]) + NoiseRows(flt.q, SystemDims(flt.m).nx)
                      + NoiseRows(flt.r, SystemDims(flt.m).ny)

\* x followed by zeros for the noise components
Augmented(x, n) == Dense([i \in 1..n |-> IF i <= Len(x) THEN x[i] ELSE R(0)], n)

\* C23: GenSigmaPoints(x) returns spDim rows and 2 spDim + 1 columns, spDim
\* counting only the noises that are present; the first column is x followed
\* by zeros, and columns i and i + spDim are the first column plus and minus
\* the same offset
C23_SigmaPointLayout ==
    SigmaCall =>
        /\ Rows(last.args.X) = SpDim
        /\ Cols(last.args.X) = 2 * SpDim + 1
        /\ Col(last.args.X, 1) = Augmented(heap[last.x], SpDim)
        /\ \A i \in 1..SpDim :
              /\ VSub(Col(last.args.X, 1 + i), Col(last.args.X, 1)) =
                    VSub(Col(last.args.X, 1), Col(last.args.X, 1 + i + SpDim))
              /\ VAdd(Col(last.args.X, 1 + i), Col(last.args.X, 1 + i + SpDim)) =
                    VScale(R(2), Col(last.args.X, 1))

\* sigma points of a filter built with a process noise and without an output
\* noise: four rows, and offsets that are not zero
C23_Witness ==
    /\ SigmaCall
    /\ flt.q.kind # "None" /\ flt.r.kind = "None"
    /\ Rows(last.args.X) = 4
    /\ Col(last.args.X, 2) # Col(last.args.X, 1)

\* the offsets: column 1 + j of the sigma points minus the first column
Offsets ==
    Dense([i \in 1..SpDim |->
              Dense([j \in 1..SpDim |->
                        RSub(last.args.X[i][1 + j], last.args.X[i][1])], SpDim)],
          SpDim)

\* C24: the offsets S are gamma times a square root of the augmented
\* covariance: S S' = gamma^2 blockdiag(P, Q, R)
C24_OffsetsAreSquareRoot ==
    SigmaCall =>
        MMul(Offsets, MT(Offsets)) =
            MScale(RMul(flt.gamma, flt.gamma),
                   BlockSymDiag(<<heap[flt.p], NoiseCov(flt.q), NoiseCov(flt.r)>>))

-----------------------------------------------------------------------------
(* properties of the IEKF's Update (SpecIter) *)

IterCall == last.op = "Update" /\ flt.kind = "IEKF"

\* the derivative of the model's output at x: C, plus 2 curve x[0] in the
\* first column
HExact(m, x) ==
    Dense([r \in 1..Rows(m.C) |->
              [m.C[r] EXCEPT ![1] =
                  IF m.curve = NIL THEN m.C[r][1]
                  ELSE RAdd(m.C[r][1], RMul(R(2), RMul(m.curve, x[1])))]],
          Rows(m.C))

\* H P' H' + R, R left out when there is no output noise
InnovationCov(H, pn, r) ==
    IF r.kind = "None" THEN MMul(MMul(H, pn), MT(H))
    ELSE MAdd(MMul(MMul(H, pn), MT(H)), NoiseCov(r))

\* K = P' H' (H P' H' + R)^-1, NIL when the innovation covariance is singular
IterGain(H, pn, r) ==
    IF Inverse(InnovationCov(H, pn, r)).err THEN NIL
    ELSE MMul(MMul(pn, MT(H)), Inverse(InnovationCov(H, pn, r)).val)

\* x after i corrections x := x + K(x) e, K(x) computed from H at the current
\* x; NIL when one of the innovation covariances was singular
RECURSIVE Iterated(_, _, _, _, _, _)
Iterated(m, r, pn, x, e, i) ==
    IF i = 0 THEN x
    ELSE With(Iterated(m, r, pn, x, e, i - 1), LAMBDA xp :
             IF xp = NIL \/ IterGain(HExact(m, xp), pn, r) = NIL THEN NIL
             ELSE VAdd(xp, MVec(IterGain(HExact(m, xp), pn, r), e)))

\* (I - K H) P' (I - K H)' + K R K'
IterJoseph(K, H, pn, r) ==
    With(MSub(Eye(Rows(pn)), MMul(K, H)), LAMBDA a :
        IF r.kind = "None" THEN MMul(MMul(a, pn), MT(a))
        ELSE MAdd(MMul(MMul(a, pn), MT(a)), MMul(MMul(K, NoiseCov(r)), MT(K))))

\* the innovation of the call: z minus the output observed at the x handed in
IterInn == VSub(last.z, Observe(flt.m, last.h0[last.x], last.u, last.rs[1]).val)

\* the state the last iteration linearised at
IterLastX == Iterated(flt.m, flt.r, last.h0[flt.pNext], last.h0[last.x], IterInn, flt.n - 1)

\* C25: IEKF.Update corrects x n times, each time with the gain computed from
\* H at the current x, then stores the Joseph-form covariance computed once
\* from the K and H of the last iteration; when an innovation covariance is
\* singular it returns an error and the stored covariance, gain and innovation
\* are unchanged
C25_IteratedUpdate ==
    IterCall =>
        IF Iterated(flt.m, flt.r, last.h0[flt.pNext], last.h0[last.x], IterInn, flt.n) = NIL
        THEN /\ last.res = "err"
             /\ heap[flt.p] = last.h0[flt.p]
             /\ heap[flt.k] = last.h0[flt.k]
             /\ heap[flt.inn] = last.h0[flt.inn]
        ELSE /\ last.res = "ok"
             /\ heap[last.est.val] =
                   Iterated(flt.m, flt.r, last.h0[flt.pNext], last.h0[last.x],
                            IterInn, flt.n)
             /\ heap[flt.h] = HExact(flt.m, IterLastX)
             /\ heap[flt.k] = IterGain(HExact(flt.m, IterLastX), last.h0[flt.pNext], flt.r)
             /\ heap[flt.p] =
                   IterJoseph(IterGain(HExact(flt.m, IterLastX), last.h0[flt.pNext], flt.r),
                              HExact(flt.m, IterLastX), last.h0[flt.pNext], flt.r)
             /\ heap[flt.inn] = IterInn

\* what EKF.Update returns for the same filter state and the same arguments
AsEKF == EKFUpdate(last.h0, [flt EXCEPT !.kind = "EKF"], last.x, last.u, last.z, last.rs[1])

\* x + n K e, K the gain for the constant H of a linear model
LinearResult ==
    VAdd(last.h0[last.x],
         VScale(R(flt.n), MVec(IterGain(flt.m.C, last.h0[flt.pNext], flt.r), IterInn)))

\* C29: the innovation IEKF.Update stores and uses is z - h(x) for the x handed
\* in; for a linear observation model the returned state is x + n K e; and
\* with n = 1 the call ends as EKF.Update does on the same filter state and
\* arguments, with the same returned state and the same stored covariance
C29_InnovationComputedOnce ==
    IterCall =>
        /\ last.res = "ok" => heap[flt.inn] = IterInn
        /\ last.res = "ok" /\ flt.m.curve = NIL => heap[last.est.val] = LinearResult
        /\ flt.n = 1 =>
              /\ AsEKF.res = last.res
              /\ last.res = "ok" =>
                    /\ AsEKF.h[AsEKF.est.val] = heap[last.est.val]
                    /\ AsEKF.h[flt.p] = heap[flt.p]

\* an Update of two or more iterations on the linear model that moved x
C29_Witness ==
    /\ IterCall /\ last.res = "ok"
    /\ flt.m.curve = NIL /\ flt.n >= 2
    /\ heap[last.est.val] # last.h0[last.x]

-----------------------------------------------------------------------------
(* properties of what Predict and Update change in a Kalman filter (Spec) *)

KalmanCall(op) == last.op = op /\ flt.kind \in Kinds

\* the filter's fields before and after the last call
Before == FState(last.h0, flt)

After == FState(heap, flt)

\* the fields of the filter other than those named
SameBut(changed) ==
    \A fld \in (DOMAIN After) \ changed : After[fld] = Before[fld]

\* the fields Predict may write, as the claim lists them: the predicted
\* covariance and, for the UKF, the predicted sigma points and their mean
PredictWrites == IF flt.kind = "UKF" THEN {"pNext", "x", "xMean"} ELSE {"pNext"}

\* the fields Update may write: the corrected covariance, the gain and the
\* innovation
UpdateWrites == {"p", "k", "inn"}

\* the Jacobian an EKF or IEKF stores: f in Predict, h in Update
JacobianOf(op) ==
    IF flt.kind \in {"EKF", "IEKF"}
    THEN (IF op = "Predict" THEN {"f"} ELSE {"h"})
    ELSE {}

\* the predicted covariance a Predict with the same arguments leaves when the
\* predicted covariance stored before the call is another one
Recomputed ==
    Predict(Store(last.h0, flt.pNext, Eye(Rows(last.h0[flt.pNext]))), flt,
            last.x, last.u, last.qs).h[flt.pNext]

\* C26 as stated: Predict writes nothing but the predicted covariance (and the
\* UKF's sigma-point predictions), Update nothing but the corrected covariance,
\* the gain and the innovation
C26_OnlyCovariancesChange ==
    /\ KalmanCall("Predict") => SameBut(PredictWrites)
    /\ KalmanCall("Update") => SameBut(UpdateWrites)

\* C26: Predict leaves the corrected covariance, the gain and the innovation
\* unchanged and writes only the predicted covariance, the UKF's sigma-point
\* predictions and the EKF's Jacobian f; Update leaves the predicted covariance
\* unchanged and writes only the corrected covariance, the gain, the innovation
\* and the EKF's Jacobian h; the predicted covariance Predict leaves does not
\* depend on the one stored before
C26_FrameOfPredictAndUpdate ==
    /\ KalmanCall("Predict") =>
          /\ SameBut(PredictWrites \cup JacobianOf("Predict"))
          /\ last.res = "ok" => heap[flt.pNext] = Recomputed
    /\ KalmanCall("Update") => SameBut(UpdateWrites \cup JacobianOf("Update"))

\* a second Predict in a row: its predicted covariance is the one the first
\* left, and the covariance, the gain and the innovation are as constructed
C26_Witness ==
    /\ KalmanCall("Predict") /\ last.res = "ok" /\ steps = 2
    /\ Len(ests) = 2
    /\ ests[1].cov = ests[2].cov
    /\ heap[flt.pNext] = last.h0[flt.pNext]
    /\ heap[flt.pNext] # ZeroMat(2, 2)

-----------------------------------------------------------------------------
(* properties of an Update made before any Predict (Spec) *)

\* the output noise has a covariance with an inverse
InvertibleR == flt.r.kind = "Gaussian" /\ ~Inverse(NoiseCov(flt.r)).err

\* the first call made on the filter is an Update with arguments of the
\* model's dimensions
FirstUpdate ==
    /\ last.op = "Update" /\ steps = 1
    /\ last.x = cx /\ last.u = UOk /\ last.z = ZOk

\* C27: a KF or EKF is constructed with an all-zero predicted covariance, and
\* an Update made before any Predict, the output noise having an invertible
\* covariance, has a zero gain, returns the x it was given and leaves a zero
\* covariance; a UKF is constructed with the initial covariance as predicted
\* covariance
C27_UpdateBeforePredict ==
    /\ flt.kind \in {"KF", "EKF"} /\ steps = 0 =>
          heap[flt.pNext] = ZeroMat(Rows(IC.cov), Rows(IC.cov))
    /\ flt.kind \in {"KF", "EKF"} /\ InvertibleR /\ FirstUpdate =>
          /\ last.res = "ok"
          /\ heap[flt.k] = ZeroMat(Rows(heap[flt.k]), Cols(heap[flt.k]))
          /\ heap[last.est.val] = last.h0[last.x]
          /\ heap[flt.p] = ZeroMat(Rows(IC.cov), Rows(IC.cov))
          /\ Cov(heap, flt).h[Cov(heap, flt).id] = ZeroMat(Rows(IC.cov), Rows(IC.cov))
    /\ flt.kind = "UKF" /\ steps = 0 => heap[flt.pNext] = IC.cov

\* a first Update of a KF or EKF whose innovation is not zero
C27_Witness ==
    /\ flt.kind \in {"KF", "EKF"} /\ InvertibleR /\ FirstUpdate
    /\ last.res = "ok"
    /\ heap[flt.inn] # ZeroVec(Len(heap[flt.inn]))
    /\ IC.cov # ZeroMat(Rows(IC.cov), Rows(IC.cov))

-----------------------------------------------------------------------------
(* properties of the caller's vectors (Spec) *)

\* the caller's vectors are as they were before the last call
CallerKeeps ==
    /\ heap[cx] = last.h0[cx]
    /\ heap[XBad] = last.h0[XBad]

=============================================================================
